---- MODULE Spec2Model ----
(***************************************************************************)
(* Verification model of the subtitle annotation engine of the r36s image  *)
(* viewer: the base table loader (base.c), the pairs parser and the viewer *)
(* event loop (r36s_viewer.c).                                             *)
(*                                                                         *)
(* A C string is a sequence of byte values 1..255.  A nullable pointer to  *)
(* a string is a sequence of length <= 1: NULL is <<>>, a pointer to the   *)
(* string s is <<s>>.                                                      *)
(***************************************************************************)
EXTENDS Integers, Sequences, FiniteSets, TLC

VARIABLES
    \* ---- load_base_file_for_directory, as a process ----
    dir_exists,   \* whether opendir(directory) succeeds
    dirents,      \* the directory listing, in readdir order (names)
    dpos,         \* number of directory entries consumed by the readdir loop
    preferred,    \* char *preferred (pointer to a name)
    fallback,     \* char *fallback
    chosen,       \* const char *chosen
    file,         \* the lines fgets will return from the chosen file
    fpos,         \* number of lines consumed by the fgets loop
    fopen_ok,     \* whether fopen(chosen) succeeds
    bd,           \* the BaseData being built / returned
    pc,           \* position of the load/lookup/free process
    find_key,     \* argument of the last find_entry_by_time call
    found,        \* result of the last find_entry_by_time call (pointer)
    \* ---- the pairs parsers, called on one pairs string ----
    pairs_str,    \* const char *pairs_str (pointer)
    out_words,    \* *out_words, the array as a sequence (NULL array = <<>>)
    out_items,    \* *out_items
    out_count,    \* *out_count
    ppc,          \* which parser was called last
    \* ---- main of the viewer ----
    fsys,         \* the file system below assets_root: path -> directory content
    directory,    \* argv[1] (pointer)
    vpc,          \* position of main: before the event loop ("init") or in it ("events")
    menu_active,  \* bool menu_active
    menu,         \* Menu menu: names, count, selected
    pathbuf,      \* the path last handed to scan_images (pointer)
    list,         \* ImageList list: the paths, list.count = Len(list)
    index,        \* int index
    base,         \* BaseData base
    current_text_msg, \* char *current_text_msg (pointer)
    show_text,    \* bool show_text
    \* ---- the subtitle layout and the word layout ----
    win,          \* <<win_w, win_h>>
    shaper,       \* the font: the width of a glyph of 1..4 bytes, per 2 px of font size
    g_subtitle_font_bias_px, \* static int g_subtitle_font_bias_px
    junk,         \* the value read behind a terminator or from fresh malloc memory
    sub_layout,   \* SubtitleLayout sub_layout: count, x_offsets, widths, font_px
    word_layout,  \* WordLayout word_layout: the spans, word_layout.count = Len
    hover_index,  \* int hover_index
    cp_byte_index, \* the array cp_byte_index of the last build_word_layout call
    lpc,          \* position of the layout process
    \* ---- the event loop of main ----
    locked_on_subtitle, \* bool locked_on_subtitle
    hover_info_tex,     \* SDL_Texture *hover_info_tex: NULL, or the text the label shows
    pair_words_cache,   \* char **pair_words_cache
    pair_words_count,   \* int pair_words_count
    show_pt,            \* bool show_pt
    current_pt_msg      \* char *current_pt_msg

loadVars == <<dir_exists, dirents, dpos, preferred, fallback, chosen, file, fpos, fopen_ok,
             bd, pc, find_key, found>>

pairsVars == <<pairs_str, out_words, out_items, out_count, ppc>>

viewVars == <<fsys, directory, vpc, menu_active, menu, pathbuf, list, index, base,
             current_text_msg, show_text>>

layVars == <<win, shaper, g_subtitle_font_bias_px, junk, sub_layout, word_layout,
             hover_index, cp_byte_index, lpc>>

evVars == <<locked_on_subtitle, hover_info_tex, pair_words_cache, pair_words_count,
            show_pt, current_pt_msg>>

vars == <<loadVars, pairsVars, viewVars, layVars, evVars>>

-----------------------------------------------------------------------------
(* Bytes and strings *)

NULL == <<>>
Ptr(s) == <<s>>
Deref(p) == p[1]

TAB == 9
LF == 10
CR == 13
SP == 32
QUOTE == 34
LPAREN == 40
PLUS == 43
COMMA == 44
MINUS == 45
DOT == 46
COLON == 58
LBRACKET == 91

IsDigit(c) == c \in 48..57

\* tolower() on one byte, as strcasecmp applies it
ToLower(c) == IF c \in 65..90 THEN c + 32 ELSE c

\* "_zht_secs_base.txt"
ZhtSuffix == <<95, 122, 104, 116, 95, 115, 101, 99, 115, 95, 98, 97, 115, 101, 46, 116, 120, 116>>
\* "_secs_base.txt"
SecsSuffix == <<95, 115, 101, 99, 115, 95, 98, 97, 115, 101, 46, 116, 120, 116>>
\* ".txt"
TxtSuffix == <<46, 116, 120, 116>>

\* strcasecmp(a, b) == 0
StrCaseEq(a, b) ==
    /\ Len(a) = Len(b)
    /\ \A i \in 1..Len(a) : ToLower(a[i]) = ToLower(b[i])

ends_with_case_insensitive(str, suffix) ==
    IF Len(suffix) > Len(str) THEN FALSE
    ELSE StrCaseEq(SubSeq(str, Len(str) - Len(suffix) + 1, Len(str)), suffix)

\* strstr(hay, needle) != NULL
StrStr(hay, needle) ==
    \E i \in 1..(Len(hay) - Len(needle) + 1) :
        SubSeq(hay, i, i + Len(needle) - 1) = needle

RECURSIVE strip_trailing_newline(_)
strip_trailing_newline(s) ==
    IF Len(s) > 0 /\ (s[Len(s)] = LF \/ s[Len(s)] = CR)
    THEN strip_trailing_newline(SubSeq(s, 1, Len(s) - 1))
    ELSE s

\* First position >= p of s that holds no tab (Len(s)+1 when there is none): strspn
RECURSIVE SkipTabs(_, _)
SkipTabs(s, p) ==
    IF p <= Len(s) /\ s[p] = TAB THEN SkipTabs(s, p + 1) ELSE p

\* First position >= p of s that holds a tab (Len(s)+1 when there is none): strcspn
RECURSIVE FindTab(_, _)
FindTab(s, p) ==
    IF p <= Len(s) /\ s[p] # TAB THEN FindTab(s, p + 1) ELSE p

\* strtok_r(.., "\t", &saveptr) resumed at position p of s: the token (a pointer)
\* and the new saveptr position.
strtok_r(s, p) ==
    LET start == SkipTabs(s, p)
        end == FindTab(s, start)
    IN IF start > Len(s)
       THEN [tok |-> NULL, save |-> start]
       ELSE [tok |-> Ptr(SubSeq(s, start, end - 1)),
             save |-> IF end > Len(s) THEN end ELSE end + 1]

IsSpace(c) == c \in {9, 10, 11, 12, 13, 32}

RECURSIVE SkipSpace(_, _)
SkipSpace(s, p) ==
    IF p <= Len(s) /\ IsSpace(s[p]) THEN SkipSpace(s, p + 1) ELSE p

RECURSIVE DigitsValue(_, _, _)
DigitsValue(s, p, acc) ==
    IF p <= Len(s) /\ IsDigit(s[p])
    THEN DigitsValue(s, p + 1, acc * 10 + (s[p] - 48))
    ELSE [val |-> acc, end |-> p]

\* strtol(s, &endptr, 10): the value and whether endptr == s (nothing converted)
strtol(s) ==
    LET p0 == SkipSpace(s, 1)
        neg == p0 <= Len(s) /\ s[p0] = MINUS
        p1 == IF p0 <= Len(s) /\ (s[p0] = MINUS \/ s[p0] = PLUS) THEN p0 + 1 ELSE p0
        d == DigitsValue(s, p1, 0)
    IN IF d.end = p1
       THEN [val |-> 0, none |-> TRUE]
       ELSE [val |-> IF neg THEN 0 - d.val ELSE d.val, none |-> FALSE]

-----------------------------------------------------------------------------
(* BaseData (base.h) and the loader (base.c) *)

MaxIndex == 1000000
InitialCapacity == 16

\* BaseData bd = {0}.  The three legacy arrays are kept as the finite map of
\* their non-NULL slots; the array pointers are NULL exactly when capacity = 0.
ZeroBaseData ==
    [entries |-> <<>>, count |-> 0, entries_capacity |-> 0,
     zht_by_index |-> <<>>, pairs_by_index |-> <<>>, pt_by_index |-> <<>>,
     capacity |-> 0]

\* arr[i] of a calloc'ed array kept as the map of its non-NULL slots
Slot(arr, i) == IF i \in DOMAIN arr THEN Ptr(arr[i]) ELSE NULL

\* arr[i] = strdup_safe(s)
SetSlot(arr, i, s) == [j \in (DOMAIN arr) \cup {i} |-> IF j = i THEN s ELSE arr[j]]

RECURSIVE GrowCap(_, _)
GrowCap(cap, needed) == IF cap <= needed THEN GrowCap(cap * 2, needed) ELSE cap

ensure_capacity_zht(b, needed_index) ==
    IF needed_index < b.capacity THEN b
    ELSE [b EXCEPT !.capacity =
              GrowCap(IF b.capacity > 0 THEN b.capacity ELSE InitialCapacity, needed_index)]

\* The body of the fgets loop for one raw line (base.c 134-157)
ProcessLine(b, raw) ==
    LET line == strip_trailing_newline(raw)
        t0 == strtok_r(line, 1)
        t1 == strtok_r(line, t0.save)
        t2 == strtok_r(line, t1.save)
        t3 == strtok_r(line, t2.save)
        t4 == strtok_r(line, t3.save)
        field0 == t0.tok
        field2 == t2.tok
        field3 == t3.tok
        field4 == t4.tok
    IN IF line = <<>> THEN b
       ELSE IF field0 = NULL THEN b
       ELSE IF field2 = NULL THEN b
       ELSE LET n == strtol(Deref(field0))
                idx == n.val
            IN IF n.none \/ idx <= 0 \/ idx > MaxIndex THEN b
               ELSE LET b1 == ensure_capacity_zht(b, idx + 1)
                        b2 == [b1 EXCEPT !.zht_by_index = SetSlot(@, idx, Deref(field2))]
                        b3 == IF field3 # NULL
                              THEN [b2 EXCEPT !.pairs_by_index = SetSlot(@, idx, Deref(field3))]
                              ELSE b2
                        b4 == IF field4 # NULL
                              THEN [b3 EXCEPT !.pt_by_index = SetSlot(@, idx, Deref(field4))]
                              ELSE b3
                    IN b4

free_base_data(b) ==
    [b EXCEPT !.zht_by_index = <<>>, !.pairs_by_index = <<>>, !.pt_by_index = <<>>,
              !.capacity = 0]

\* const BaseEntry *find_entry_by_time(const BaseData *bd, int time_seconds):
\* binary search over the ordered record array entries[0 .. count-1]
RECURSIVE BinarySearch(_, _, _, _)
BinarySearch(entries, lo, hi, t) ==
    IF lo > hi THEN NULL
    ELSE LET mid == lo + (hi - lo) \div 2
         IN IF entries[mid + 1].time_seconds = t THEN Ptr(entries[mid + 1])
            ELSE IF entries[mid + 1].time_seconds < t
                 THEN BinarySearch(entries, mid + 1, hi, t)
                 ELSE BinarySearch(entries, lo, mid - 1, t)

find_entry_by_time(b, t) == BinarySearch(b.entries, 0, b.count - 1, t)

\* The whole fgets loop over a file, from a given store
RECURSIVE LoadLines(_, _)
LoadLines(b, lines) ==
    IF lines = <<>> THEN b ELSE LoadLines(ProcessLine(b, Head(lines)), Tail(lines))

Slash == 47

\* snprintf(full, need, "%s/%s", dir_path, ent->d_name)
FullPath(dir_path, d_name) == dir_path \o <<Slash>> \o d_name

\* One iteration of the readdir loop (base.c 97-112) on the pair
\* sel = [preferred, fallback]
ReadDirStep(sel, dir_path, d_name) ==
    LET full == FullPath(dir_path, d_name)
    IN IF d_name[1] = DOT THEN sel
       ELSE IF ends_with_case_insensitive(full, TxtSuffix)
            THEN IF StrStr(d_name, ZhtSuffix)
                 THEN IF sel.preferred = NULL THEN [sel EXCEPT !.preferred = Ptr(full)] ELSE sel
                 ELSE IF StrStr(d_name, SecsSuffix)
                      THEN IF sel.fallback = NULL THEN [sel EXCEPT !.fallback = Ptr(full)] ELSE sel
                      ELSE sel
            ELSE sel

\* const char *chosen = preferred ? preferred : fallback
ChosenOf(sel) == IF sel.preferred # NULL THEN sel.preferred ELSE sel.fallback

RECURSIVE ReadDirLoop(_, _, _)
ReadDirLoop(sel, dir_path, names) ==
    IF names = <<>> THEN sel
    ELSE ReadDirLoop(ReadDirStep(sel, dir_path, Head(names)), dir_path, Tail(names))

\* load_base_file_for_directory as one call.  dir describes what the file
\* system holds at the path: whether it can be opened, its listing, whether the
\* chosen file can be opened and the lines of that file.
load_base_file_for_directory(path, dir) ==
    IF ~dir.exists THEN ZeroBaseData
    ELSE LET sel == ReadDirLoop([preferred |-> NULL, fallback |-> NULL], path, dir.names)
         IN IF ChosenOf(sel) = NULL THEN ZeroBaseData
            ELSE IF ~dir.openable THEN ZeroBaseData
            ELSE LoadLines(ZeroBaseData, dir.lines)

-----------------------------------------------------------------------------
(* Inputs of the loader *)

MaxLines == 2
MaxFields == 5
MaxDirEntries == 3

\* The directory argument: "d"
Directory == <<100>>

\* Directory entry names: "a_zht_secs_base.txt", "c_zht_secs_base.txt",
\* "b_secs_base.txt", "a_zht_secs_base.txt.bak.txt", "b_secs_base.txt.bak.txt",
\* "notes.txt", ".a_zht_secs_base.txt", "1.png"
BakTxt == <<46, 98, 97, 107, 46, 116, 120, 116>>
DirNames ==
    { <<97>> \o ZhtSuffix, <<99>> \o ZhtSuffix, <<98>> \o SecsSuffix,
      <<97>> \o ZhtSuffix \o BakTxt, <<98>> \o SecsSuffix \o BakTxt,
      <<110, 111, 116, 101, 115>> \o TxtSuffix,
      <<DOT, 97>> \o ZhtSuffix,
      <<49, 46, 112, 110, 103>> }

\* Sequences of length n over S without repetition
RECURSIVE Arrangements(_, _)
Arrangements(S, n) ==
    IF n = 0 THEN { <<>> }
    ELSE UNION { { <<x>> \o r : r \in Arrangements(S \ {x}, n - 1) } : x \in S }

Listings == UNION { Arrangements(DirNames, n) : n \in 0..MaxDirEntries }

\* Field k of a generated table line: index "1" "2"; time "t"; subtitle "a" "b";
\* pairs "p" "r" or empty; translation "q"; anything further "z"
FieldChoices(k) ==
    IF k = 1 THEN { <<49>>, <<50>> }
    ELSE IF k = 2 THEN { <<116>> }
    ELSE IF k = 3 THEN { <<97>>, <<98>> }
    ELSE IF k = 4 THEN { <<112>>, <<114>>, <<>> }
    ELSE IF k = 5 THEN { <<113>> }
    ELSE { <<122>> }

RECURSIVE FieldSeqs(_)
FieldSeqs(n) ==
    IF n = 0 THEN { <<>> }
    ELSE { fs \o <<f>> : fs \in FieldSeqs(n - 1), f \in FieldChoices(n) }

RECURSIVE JoinTab(_)
JoinTab(fs) ==
    IF Len(fs) = 0 THEN <<>>
    ELSE IF Len(fs) = 1 THEN fs[1]
    ELSE fs[1] \o <<TAB>> \o JoinTab(Tail(fs))

ProductLines ==
    { JoinTab(fs) \o <<LF>> : fs \in UNION { FieldSeqs(n) : n \in 1..MaxFields } }

\* Lines outside the product: empty line; index 0; index 1000001; index 1000000;
\* index "1x"; index "x"; empty time field "1<TAB><TAB>a"; leading tab; CR LF ending
TailTA == <<TAB, 116, TAB, 97>>
SpecialLines ==
    { <<LF>>,
      <<48>> \o TailTA \o <<LF>>,
      <<49, 48, 48, 48, 48, 48, 49>> \o TailTA \o <<LF>>,
      <<49, 48, 48, 48, 48, 48, 48>> \o TailTA \o <<LF>>,
      <<49, 120>> \o TailTA \o <<LF>>,
      <<120>> \o TailTA \o <<LF>>,
      <<49, TAB, TAB, 97, LF>>,
      <<TAB, 49>> \o TailTA \o <<LF>>,
      <<50>> \o TailTA \o <<CR, LF>> }

Lines == ProductLines \cup SpecialLines

RECURSIVE SeqsUpTo(_, _)
SeqsUpTo(S, n) ==
    IF n = 0 THEN { <<>> }
    ELSE LET shorter == SeqsUpTo(S, n - 1)
         IN shorter \cup { s \o <<x>> : s \in { r \in shorter : Len(r) = n - 1 }, x \in S }

Files == SeqsUpTo(Lines, MaxLines)

\* The table used when the directory listing is what varies:
\* "1<TAB>t<TAB>a<TAB>p<TAB>q", "2<TAB>t<TAB>b"
SampleFile ==
    << <<49, TAB, 116, TAB, 97, TAB, 112, TAB, 113, LF>>, <<50, TAB, 116, TAB, 98, LF>> >>

LookupKeys == {1, 2, 3}

-----------------------------------------------------------------------------
(* load_base_file_for_directory as a process, followed by lookups and free *)

\* Either the listing varies (any directory, a sample table) or the table
\* varies (a directory holding one primary-language table).
LoadIdle ==
    /\ dir_exists = FALSE
    /\ dirents = <<>>
    /\ fopen_ok = FALSE
    /\ file = <<>>
    /\ dpos = 0
    /\ preferred = NULL
    /\ fallback = NULL
    /\ chosen = NULL
    /\ fpos = 0
    /\ bd = ZeroBaseData
    /\ pc = "off"
    /\ find_key = 0
    /\ found = NULL

PairsIdle ==
    /\ pairs_str = NULL
    /\ out_words = <<>>
    /\ out_items = <<>>
    /\ out_count = 0
    /\ ppc = "off"

ViewerIdle ==
    /\ fsys = <<>>
    /\ directory = NULL
    /\ vpc = "off"
    /\ menu_active = FALSE
    /\ menu = [names |-> <<>>, count |-> 0, selected |-> 0]
    /\ pathbuf = NULL
    /\ list = <<>>
    /\ index = 0
    /\ base = ZeroBaseData
    /\ current_text_msg = NULL
    /\ show_text = FALSE

\* SubtitleLayout sub_layout = {0}
ZeroSubtitleLayout == [count |-> 0, x_offsets |-> <<>>, widths |-> <<>>, font_px |-> 0]

LayoutIdle ==
    /\ win = <<0, 0>>
    /\ shaper = <<>>
    /\ g_subtitle_font_bias_px = 0
    /\ junk = 0
    /\ sub_layout = ZeroSubtitleLayout
    /\ word_layout = <<>>
    /\ hover_index = -1
    /\ cp_byte_index = <<>>
    /\ lpc = "off"

EventsIdle ==
    /\ locked_on_subtitle = FALSE
    /\ hover_info_tex = NULL
    /\ pair_words_cache = <<>>
    /\ pair_words_count = 0
    /\ show_pt = FALSE
    /\ current_pt_msg = NULL

InitLoad ==
    /\ \/ /\ dir_exists \in BOOLEAN
          /\ dirents \in Listings
          /\ fopen_ok \in BOOLEAN
          /\ file = SampleFile
       \/ /\ dir_exists = TRUE
          /\ dirents = << <<97>> \o ZhtSuffix >>
          /\ fopen_ok = TRUE
          /\ file \in Files
    /\ dpos = 0
    /\ preferred = NULL
    /\ fallback = NULL
    /\ chosen = NULL
    /\ fpos = 0
    /\ bd = ZeroBaseData
    /\ pc = "opendir"
    /\ find_key = 0
    /\ found = NULL

Init == InitLoad /\ PairsIdle /\ ViewerIdle /\ LayoutIdle /\ EventsIdle
    /\ EventsIdle

\* base.c 87-91
OpenDir ==
    /\ pc = "opendir"
    /\ pc' = IF dir_exists THEN "readdir" ELSE "done"
    /\ UNCHANGED <<dir_exists, dirents, dpos, preferred, fallback, chosen, file, fpos,
                   fopen_ok, bd, find_key, found>>
    /\ UNCHANGED <<pairsVars, viewVars, layVars, evVars>>

\* One iteration of the readdir loop, base.c 96-113
ReadDir ==
    /\ pc = "readdir"
    /\ dpos < Len(dirents)
    /\ LET sel == ReadDirStep([preferred |-> preferred, fallback |-> fallback],
                              Directory, dirents[dpos + 1])
       IN /\ preferred' = sel.preferred
          /\ fallback' = sel.fallback
    /\ dpos' = dpos + 1
    /\ UNCHANGED <<dir_exists, dirents, chosen, file, fpos, fopen_ok, bd, pc, find_key, found>>
    /\ UNCHANGED <<pairsVars, viewVars, layVars, evVars>>

\* closedir, the choice of the file and fopen, base.c 114-130
ChooseFile ==
    /\ pc = "readdir"
    /\ dpos = Len(dirents)
    /\ chosen' = ChosenOf([preferred |-> preferred, fallback |-> fallback])
    /\ pc' = IF chosen' = NULL THEN "done"
             ELSE IF fopen_ok THEN "fgets" ELSE "done"
    /\ UNCHANGED <<dir_exists, dirents, dpos, preferred, fallback, file, fpos, fopen_ok,
                   bd, find_key, found>>
    /\ UNCHANGED <<pairsVars, viewVars, layVars, evVars>>

\* One iteration of the fgets loop, base.c 133-158
ReadLine ==
    /\ pc = "fgets"
    /\ fpos < Len(file)
    /\ bd' = ProcessLine(bd, file[fpos + 1])
    /\ fpos' = fpos + 1
    /\ UNCHANGED <<dir_exists, dirents, dpos, preferred, fallback, chosen, file, fopen_ok,
                   pc, find_key, found>>
    /\ UNCHANGED <<pairsVars, viewVars, layVars, evVars>>

\* End of file: fclose and return bd, base.c 160-163
EndOfFile ==
    /\ pc = "fgets"
    /\ fpos = Len(file)
    /\ pc' = "done"
    /\ UNCHANGED <<dir_exists, dirents, dpos, preferred, fallback, chosen, file, fpos,
                   fopen_ok, bd, find_key, found>>
    /\ UNCHANGED <<pairsVars, viewVars, layVars, evVars>>

\* A lookup on the returned store, test_base.c 12-19
Find ==
    /\ pc \in {"done", "freed"}
    /\ \E t \in LookupKeys :
          /\ find_key' = t
          /\ found' = find_entry_by_time(bd, t)
    /\ UNCHANGED <<dir_exists, dirents, dpos, preferred, fallback, chosen, file, fpos,
                   fopen_ok, bd, pc>>
    /\ UNCHANGED <<pairsVars, viewVars, layVars, evVars>>

\* free_base_data(&base), test_base.c 21
Free ==
    /\ pc = "done"
    /\ bd' = free_base_data(bd)
    /\ pc' = "freed"
    /\ UNCHANGED <<dir_exists, dirents, dpos, preferred, fallback, chosen, file, fpos,
                   fopen_ok, find_key, found>>
    /\ UNCHANGED <<pairsVars, viewVars, layVars, evVars>>

Next == OpenDir \/ ReadDir \/ ChooseFile \/ ReadLine \/ EndOfFile \/ Find \/ Free

Spec == Init /\ [][Next]_vars

-----------------------------------------------------------------------------
(* The table format as the specification states it: fields are delimited   *)
(* by single tabs, so two adjacent tabs enclose an empty field.            *)

RECURSIVE SplitTab(_)
SplitTab(s) ==
    LET e == FindTab(s, 1)
    IN IF e > Len(s) THEN <<s>>
       ELSE <<SubSeq(s, 1, e - 1)>> \o SplitTab(SubSeq(s, e + 1, Len(s)))

TableFields(raw) == SplitTab(strip_trailing_newline(raw))

IsDecimal(f) == Len(f) > 0 /\ \A i \in 1..Len(f) : IsDigit(f[i])
DecimalValue(f) == DigitsValue(f, 1, 0).val

\* The first field is an integer in [1, 1000000] and the three required fields exist
TableLineAccepted(raw) ==
    LET f == TableFields(raw)
    IN /\ Len(f) >= 3
       /\ IsDecimal(f[1])
       /\ DecimalValue(f[1]) \in 1..MaxIndex

TableLineKey(raw) == DecimalValue(TableFields(raw)[1])

\* The record the store holds for a key: the three slots of the key
RecordAt(b, k) ==
    [zht |-> Slot(b.zht_by_index, k), pairs |-> Slot(b.pairs_by_index, k),
     pt |-> Slot(b.pt_by_index, k)]

\* C1: a line is ingested if and only if its first tab-separated field is an
\* integer in [1, 1000000] and it has the three required fields; any other line
\* leaves the records loaded so far unchanged.
C1_IngestIffValidIndexAndThreeFields ==
    [][(pc = "fgets" /\ fpos' = fpos + 1) =>
          LET raw == file[fpos + 1]
          IN IF TableLineAccepted(raw)
             THEN Slot(bd'.zht_by_index, TableLineKey(raw)) = Ptr(TableFields(raw)[3])
             ELSE bd' = bd]_vars

\* What the loader makes of one line on its own, in an empty store
LineAlone(raw) == ProcessLine(ZeroBaseData, raw)
LineIngested(raw) == LineAlone(raw).zht_by_index # <<>>
LineKey(raw) == CHOOSE k \in DOMAIN LineAlone(raw).zht_by_index : TRUE

\* C2: last-write-wins. After the load, the record of a key is the record of the
\* last ingested line with that key, in every field: subtitle, pairs and
\* translation (absent where that line has none).
C2_LastWriteWinsEveryField ==
    pc = "done" /\ fpos = Len(file) =>
        \A i \in 1..Len(file) :
            (/\ LineIngested(file[i])
             /\ \A j \in (i + 1)..Len(file) :
                    ~(LineIngested(file[j]) /\ LineKey(file[j]) = LineKey(file[i])))
            => RecordAt(bd, LineKey(file[i])) = RecordAt(LineAlone(file[i]), LineKey(file[i]))

\* An optional field as the record should hold it: absent or empty when the
\* line has no such field or an empty one
OptionalFieldHeld(slot, f, k) ==
    IF Len(f) >= k /\ f[k] # <<>> THEN slot = Ptr(f[k]) ELSE slot \in {NULL, Ptr(<<>>)}

\* C3: fields are assigned by position. For the first line of a table, with its
\* three required fields non-empty: subtitle = field 3, pairs = field 4,
\* translation = field 5; an empty field 4 leaves pairs empty and does not move
\* field 5 into it.
C3_FieldsAssignedByPosition ==
    (pc = "fgets" /\ fpos = 1) =>
        LET f == TableFields(file[1])
            r == RecordAt(bd, TableLineKey(file[1]))
        IN (/\ TableLineAccepted(file[1])
            /\ f[2] # <<>>
            /\ f[3] # <<>>)
           => /\ r.zht = Ptr(f[3])
              /\ OptionalFieldHeld(r.pairs, f, 4)
              /\ OptionalFieldHeld(r.pt, f, 5)

\* strcmp of the tail of s with suffix
HasSuffix(s, suffix) ==
    /\ Len(suffix) <= Len(s)
    /\ SubSeq(s, Len(s) - Len(suffix) + 1, Len(s)) = suffix

\* A listed (not hidden) name matching *_zht_secs_base.txt / *_secs_base.txt
IsPrimaryTable(name) == name[1] # DOT /\ HasSuffix(name, ZhtSuffix)
IsGenericTable(name) == name[1] # DOT /\ HasSuffix(name, SecsSuffix) /\ ~HasSuffix(name, ZhtSuffix)
PrimaryPresent == dir_exists /\ \E i \in 1..Len(dirents) : IsPrimaryTable(dirents[i])
GenericPresent == dir_exists /\ \E i \in 1..Len(dirents) : IsGenericTable(dirents[i])

\* The name part of a full path built by FullPath
BaseName(full) == SubSeq(full, Len(Directory) + 2, Len(full))

\* C4: source selection. With a primary-language table listed, the file loaded
\* is a primary-language table; otherwise, with a generic table listed, it is a
\* generic one; with neither (or no directory) the store returned is empty,
\* lookups on it find nothing and freeing it leaves it empty.
C4_SourceSelection ==
    pc \in {"done", "freed"} =>
        IF PrimaryPresent
        THEN fopen_ok => (chosen # NULL /\ IsPrimaryTable(BaseName(Deref(chosen))))
        ELSE IF GenericPresent
             THEN fopen_ok => (chosen # NULL /\ IsGenericTable(BaseName(Deref(chosen))))
             ELSE /\ bd = ZeroBaseData
                  /\ found = NULL
                  /\ free_base_data(bd) = ZeroBaseData

\* C5: the file selected has a name that ends in the primary-language suffix
\* or in the generic suffix.
C5_ChosenNameEndsInSuffix ==
    chosen # NULL =>
        \/ HasSuffix(Deref(chosen), ZhtSuffix)
        \/ HasSuffix(Deref(chosen), SecsSuffix)

\* C6: exact-match lookup. A lookup after the load returns the record of the key
\* when a line with that key was ingested, holding that line's subtitle text,
\* and returns NULL otherwise.
C6_LookupFindsIngestedKey ==
    (pc = "done" /\ find_key # 0) =>
        LET slot == Slot(bd.zht_by_index, find_key)
        IN IF slot # NULL
           THEN /\ found # NULL
                /\ Deref(found).time_seconds = find_key
                /\ Deref(found).zht_text = slot
           ELSE found = NULL

\* A linear scan of the record array
RECURSIVE LinearScan(_, _, _)
LinearScan(entries, i, t) ==
    IF i > Len(entries) THEN NULL
    ELSE IF entries[i].time_seconds = t THEN Ptr(entries[i])
    ELSE LinearScan(entries, i + 1, t)

\* C7: after the load the record array holds one record per distinct ingested
\* key, in strictly ascending time_seconds order, and binary search and linear
\* scan agree on every key.
C7_EntriesOnePerKeyAscending ==
    (pc = "done" /\ fpos = Len(file)) =>
        /\ bd.count = Len(bd.entries)
        /\ { bd.entries[i].time_seconds : i \in 1..Len(bd.entries) } = DOMAIN bd.zht_by_index
        /\ \A i \in 1..(Len(bd.entries) - 1) :
               bd.entries[i].time_seconds < bd.entries[i + 1].time_seconds
        /\ \A t \in LookupKeys :
               find_entry_by_time(bd, t) = LinearScan(bd.entries, 1, t)

-----------------------------------------------------------------------------
(* The pairs parsers, r36s_viewer.c 43-166.  Offsets are the C offsets     *)
(* (0-based); malloc and realloc are taken to succeed.                     *)

\* s[i]
At(s, i) == s[i + 1]

\* while (start < end && (s[start] == ' ' || s[start] == '\t')) start++;
RECURSIVE TrimStart(_, _, _)
TrimStart(s, start, end) ==
    IF start < end /\ (At(s, start) = SP \/ At(s, start) = TAB)
    THEN TrimStart(s, start + 1, end) ELSE start

\* while (end > start && (s[end-1] == ' ' || s[end-1] == '\t')) end--;
RECURSIVE TrimEnd(_, _, _)
TrimEnd(s, start, end) ==
    IF end > start /\ (At(s, end - 1) = SP \/ At(s, end - 1) = TAB)
    THEN TrimEnd(s, start, end - 1) ELSE end

\* The copy without the two trimming loops
strdup_range_untrimmed(s, start, end) == SubSeq(s, start + 1, end)

strdup_trim_range(s, start, end) ==
    LET st == TrimStart(s, start, end)
        en == TrimEnd(s, st, end)
    IN SubSeq(s, st + 1, en)

\* while (i < lim && s[i] != c) i++;
RECURSIVE ScanTo(_, _, _, _)
ScanTo(s, i, lim, c) ==
    IF i < lim /\ At(s, i) # c THEN ScanTo(s, i + 1, lim, c) ELSE i

\* The end of the word inside the quoted content [q1, q2): '(' preferred,
\* ':' as fallback, r36s_viewer.c 73-78 and 127-129
WordEnd(s, q1, q2) ==
    LET j == ScanTo(s, q1, q2, LPAREN)
    IN IF j < q2 THEN j
       ELSE LET j2 == ScanTo(s, q1, q2, COLON) IN IF j2 < q2 THEN j2 ELSE q2

\* The bracket scan that takes the text after an unmatched opening quote
\* as a last segment
RECURSIVE BracketItemsPartial(_, _, _)
BracketItemsPartial(s, i, acc) ==
    LET n == Len(s)
        o == ScanTo(s, i, n, QUOTE)
    IN IF o >= n THEN acc
       ELSE LET q1 == o + 1
                q2 == ScanTo(s, q1, n, QUOTE)
                w == strdup_trim_range(s, q1, WordEnd(s, q1, q2))
                it == strdup_trim_range(s, q1, q2)
                next == IF w # <<>> /\ it # <<>>
                        THEN Append(acc, [word |-> w, item |-> it]) ELSE acc
            IN IF q2 >= n THEN next ELSE BracketItemsPartial(s, q2 + 1, next)

\* The bracket branch of extract_words_and_items_from_pairs, from offset i
\* with the items acc collected so far (r36s_viewer.c 121-137)
RECURSIVE BracketItems(_, _, _)
BracketItems(s, i, acc) ==
    LET n == Len(s)
        o == ScanTo(s, i, n, QUOTE)
    IN IF o >= n THEN acc
       ELSE LET q1 == o + 1
                q2 == ScanTo(s, q1, n, QUOTE)
            IN IF q2 >= n THEN acc
               ELSE LET w == strdup_trim_range(s, q1, WordEnd(s, q1, q2))
                        it == strdup_trim_range(s, q1, q2)
                    IN BracketItems(s, q2 + 1,
                          IF w # <<>> /\ it # <<>>
                          THEN Append(acc, [word |-> w, item |-> it]) ELSE acc)

\* The bracket branch of extract_words_from_pairs (r36s_viewer.c 63-86)
RECURSIVE BracketWords(_, _, _)
BracketWords(s, i, acc) ==
    LET n == Len(s)
        o == ScanTo(s, i, n, QUOTE)
    IN IF o >= n THEN acc
       ELSE LET q1 == o + 1
                q2 == ScanTo(s, q1, n, QUOTE)
            IN IF q2 >= n THEN acc
               ELSE LET w == strdup_trim_range(s, q1, WordEnd(s, q1, q2))
                    IN BracketWords(s, q2 + 1, IF w # <<>> THEN Append(acc, w) ELSE acc)

\* int k = 0; while (k < seglen && seg[k] != '(' && seg[k] != ':') k++;
RECURSIVE SegScan(_, _, _, _)
SegScan(s, seg, seglen, k) ==
    IF k < seglen /\ At(s, seg + k) # LPAREN /\ At(s, seg + k) # COLON
    THEN SegScan(s, seg, seglen, k + 1) ELSE k

\* The body for one comma segment without the test of w and it
SegItemUnfiltered(s, seg, p, acc) ==
    LET seglen == p - seg
        k == SegScan(s, seg, seglen, 0)
    IN Append(acc, [word |-> strdup_trim_range(s, seg, seg + (IF k < seglen THEN k ELSE seglen)),
                    item |-> strdup_trim_range(s, seg, seg + seglen)])

\* The body run for one comma segment [seg, p) (r36s_viewer.c 142-149, 155-162)
SegItem(s, seg, p, acc) ==
    LET seglen == p - seg
        k == SegScan(s, seg, seglen, 0)
        w == strdup_trim_range(s, seg, seg + (IF k < seglen THEN k ELSE seglen))
        it == strdup_trim_range(s, seg, seg + seglen)
    IN IF w # <<>> /\ it # <<>> THEN Append(acc, [word |-> w, item |-> it]) ELSE acc

\* The body for one comma segment in extract_words_from_pairs without the
\* test of w
SegWordUnfiltered(s, seg, p, acc) ==
    LET seglen == p - seg
        k == SegScan(s, seg, seglen, 0)
    IN Append(acc, strdup_trim_range(s, seg, seg + (IF k < seglen THEN k ELSE seglen)))

\* The body run for one comma segment in extract_words_from_pairs (93-97, 103-106)
SegWord(s, seg, p, acc) ==
    LET seglen == p - seg
        k == SegScan(s, seg, seglen, 0)
        w == strdup_trim_range(s, seg, seg + (IF k < seglen THEN k ELSE seglen))
    IN IF w # <<>> THEN Append(acc, w) ELSE acc

\* The comma branch of extract_words_and_items_from_pairs (r36s_viewer.c 139-163)
RECURSIVE CommaItems(_, _, _, _)
CommaItems(s, p, seg, acc) ==
    IF p < Len(s)
    THEN IF At(s, p) = COMMA
         THEN CommaItems(s, p + 1, p + 1, SegItem(s, seg, p, acc))
         ELSE CommaItems(s, p + 1, seg, acc)
    ELSE IF p # seg THEN SegItem(s, seg, p, acc) ELSE acc

\* The comma branch of extract_words_from_pairs (r36s_viewer.c 89-108)
RECURSIVE CommaWords(_, _, _, _)
CommaWords(s, p, seg, acc) ==
    IF p < Len(s)
    THEN IF At(s, p) = COMMA
         THEN CommaWords(s, p + 1, p + 1, SegWord(s, seg, p, acc))
         ELSE CommaWords(s, p + 1, seg, acc)
    ELSE IF p # seg THEN SegWord(s, seg, p, acc) ELSE acc

\* The results [words, count] of extract_words_from_pairs(pairs_str, ...)
extract_words_from_pairs(ps) ==
    IF ps = NULL \/ Deref(ps) = <<>> THEN [words |-> <<>>, count |-> 0]
    ELSE LET s == Deref(ps)
             ws == IF At(s, 0) = LBRACKET THEN BracketWords(s, 0, <<>>)
                   ELSE CommaWords(s, 0, 0, <<>>)
         IN [words |-> ws, count |-> Len(ws)]

\* The parser with cnt advanced for every comma segment scanned, emitted or not
extract_words_and_items_miscounted(ps) ==
    IF ps = NULL \/ Deref(ps) = <<>> THEN [words |-> <<>>, items |-> <<>>, count |-> 0]
    ELSE LET s == Deref(ps)
             its == IF At(s, 0) = LBRACKET THEN BracketItems(s, 0, <<>>)
                    ELSE CommaItems(s, 0, 0, <<>>)
         IN [words |-> [i \in 1..Len(its) |-> its[i].word],
             items |-> [i \in 1..Len(its) |-> its[i].item],
             count |-> IF At(s, 0) = LBRACKET THEN Len(its)
                       ELSE Len(CommaItems(s, 0, 0, <<>>)) +
                            Cardinality({ i \in 1..Len(s) : s[i] = COMMA })]

\* The results [words, items, count] of extract_words_and_items_from_pairs
extract_words_and_items_from_pairs(ps) ==
    IF ps = NULL \/ Deref(ps) = <<>> THEN [words |-> <<>>, items |-> <<>>, count |-> 0]
    ELSE LET s == Deref(ps)
             its == IF At(s, 0) = LBRACKET THEN BracketItems(s, 0, <<>>)
                    ELSE CommaItems(s, 0, 0, <<>>)
         IN [words |-> [i \in 1..Len(its) |-> its[i].word],
             items |-> [i \in 1..Len(its) |-> its[i].item],
             count |-> Len(its)]

-----------------------------------------------------------------------------
(* The pairs parsers called on one pairs string *)

MaxPairsLen == 5

\* The bytes the parsers distinguish, and a letter: [ " ( : , space a
PairsAlphabet == {LBRACKET, QUOTE, LPAREN, COLON, COMMA, SP, 97}

\* Longer pairs strings:
\*   [" a(x): b,c ", "d:e"]        "<TAB>a<TAB>:b"]  after [
\*   <SP>["a(x)"]                  ["<CR>a<CR>"]
\*   a:b(c), d                     ["a", "b
LongPairs ==
    { <<91, 34, 32, 97, 40, 120, 41, 58, 32, 98, 44, 99, 32, 34, 44, 32, 34, 100, 58, 101, 34, 93>>,
      <<91, 34, 9, 97, 9, 58, 98, 34, 93>>,
      <<32, 91, 34, 97, 40, 120, 41, 34, 93>>,
      <<91, 34, 13, 97, 13, 34, 93>>,
      <<97, 58, 98, 40, 99, 41, 44, 32, 100>>,
      <<91, 34, 97, 34, 44, 32, 34, 98>> }

PairsStrings ==
    UNION { [1..n -> PairsAlphabet] : n \in 0..MaxPairsLen } \cup LongPairs

InitPairs ==
    /\ pairs_str \in {NULL} \cup { Ptr(s) : s \in PairsStrings }
    /\ out_words = <<>>
    /\ out_items = <<>>
    /\ out_count = 0
    /\ ppc = "input"
    /\ LoadIdle
    /\ ViewerIdle
    /\ LayoutIdle
    /\ EventsIdle

\* extract_words_from_pairs(pairs_str, &out_words, &out_count)
ExtractWords ==
    /\ ppc # "off"
    /\ LET r == extract_words_from_pairs(pairs_str)
       IN /\ out_words' = r.words
          /\ out_count' = r.count
    /\ out_items' = <<>>
    /\ ppc' = "words"
    /\ UNCHANGED pairs_str
    /\ UNCHANGED <<loadVars, viewVars, layVars, evVars>>

\* extract_words_and_items_from_pairs(pairs_str, &out_words, &out_items, &out_count)
ExtractWordsAndItems ==
    /\ ppc # "off"
    /\ LET r == extract_words_and_items_from_pairs(pairs_str)
       IN /\ out_words' = r.words
          /\ out_items' = r.items
          /\ out_count' = r.count
    /\ ppc' = "items"
    /\ UNCHANGED pairs_str
    /\ UNCHANGED <<loadVars, viewVars, layVars, evVars>>

NextPairs == ExtractWords \/ ExtractWordsAndItems

SpecPairs == InitPairs /\ [][NextPairs]_vars

-----------------------------------------------------------------------------
(* Claims about the pairs parsers *)

IsBlank(c) == c = SP \/ c = TAB

\* The first byte of s that is neither a space nor a tab, as a pointer
FirstNonBlank(s) ==
    LET nb == { i \in 1..Len(s) : ~IsBlank(s[i]) }
    IN IF nb = {} THEN NULL
       ELSE Ptr(s[CHOOSE i \in nb : \A j \in nb : i <= j])

\* C9: the encoding is chosen by the first non-whitespace character of the
\* pairs string: '[' selects the quoted-segment scan, also after leading
\* spaces or tabs; any other character selects the comma scan.
C9_EncodingByFirstNonWhitespace ==
    (ppc \in {"words", "items"} /\ pairs_str # NULL /\ Deref(pairs_str) # <<>>) =>
        LET s == Deref(pairs_str)
            bracketed == FirstNonBlank(s) = Ptr(LBRACKET)
            its == IF bracketed THEN BracketItems(s, 0, <<>>) ELSE CommaItems(s, 0, 0, <<>>)
            ws == IF bracketed THEN BracketWords(s, 0, <<>>) ELSE CommaWords(s, 0, 0, <<>>)
        IN IF ppc = "items"
           THEN /\ out_count = Len(its)
                /\ \A i \in 1..Len(its) :
                      out_words[i] = its[i].word /\ out_items[i] = its[i].item
           ELSE out_count = Len(ws) /\ out_words = ws

\* The positions of the quotes of s, and the k-th of them
QuotePositions(s) == { i \in 1..Len(s) : s[i] = QUOTE }
NthQuote(s, k) ==
    CHOOSE i \in QuotePositions(s) :
        Cardinality({ j \in QuotePositions(s) : j < i }) = k - 1

\* The contents of the complete quoted segments of s, in order
QuotedSegments(s) ==
    [k \in 1..(Cardinality(QuotePositions(s)) \div 2) |->
        SubSeq(s, NthQuote(s, 2 * k - 1) + 1, NthQuote(s, 2 * k) - 1)]

\* x without its leading and trailing spaces and tabs
TrimBlanks(x) ==
    LET nb == { i \in 1..Len(x) : ~IsBlank(x[i]) }
    IN IF nb = {} THEN <<>>
       ELSE SubSeq(x, CHOOSE i \in nb : \A j \in nb : i <= j,
                      CHOOSE i \in nb : \A j \in nb : i >= j)

\* The prefix of seg before its first byte c
PrefixBefore(seg, c) ==
    LET at == { i \in 1..Len(seg) : seg[i] = c }
    IN SubSeq(seg, 1, (CHOOSE i \in at : \A j \in at : i <= j) - 1)

\* The word of a segment: before the first '(' , else before the first ':',
\* else the whole segment
WordOfSegment(seg) ==
    IF \E i \in 1..Len(seg) : seg[i] = LPAREN THEN PrefixBefore(seg, LPAREN)
    ELSE IF \E i \in 1..Len(seg) : seg[i] = COLON THEN PrefixBefore(seg, COLON)
    ELSE seg

PairOfSegment(seg) == [word |-> TrimBlanks(WordOfSegment(seg)), item |-> TrimBlanks(seg)]

Emitted(pair) == pair.word # <<>> /\ pair.item # <<>>

-----------------------------------------------------------------------------
(* ui.c: image names, scan_images, build_menu *)

\* Offset of the last byte c of s, -1 when there is none
strrchr(s, c) ==
    LET at == { i \in 1..Len(s) : s[i] = c }
    IN IF at = {} THEN -1 ELSE (CHOOSE i \in at : \A j \in at : i >= j) - 1

\* ".png"
PngExt == <<46, 112, 110, 103>>

\* ui.c 19-23
has_image_ext(name) ==
    LET dot == strrchr(name, DOT)
    IN IF dot < 0 THEN FALSE ELSE StrCaseEq(SubSeq(name, dot + 1, Len(name)), PngExt)

\* The loop of basename_numeric_value over name[0..len), ui.c 32-37
RECURSIVE DecimalLoop(_, _, _, _)
DecimalLoop(name, i, len, value) ==
    IF i >= len THEN [ok |-> TRUE, value |-> value]
    ELSE IF ~IsDigit(At(name, i)) THEN [ok |-> FALSE, value |-> 0]
    ELSE DecimalLoop(name, i + 1, len, value * 10 + (At(name, i) - 48))

\* ui.c 25-40; out_value is left alone (0 at every call site) on failure
basename_numeric_value(path) ==
    LET slash == strrchr(path, Slash)
        name == IF slash >= 0 THEN SubSeq(path, slash + 2, Len(path)) ELSE path
        dot == strrchr(name, DOT)
        len == IF dot > 0 THEN dot ELSE Len(name)
    IN IF len = 0 THEN [ok |-> FALSE, value |-> 0] ELSE DecimalLoop(name, 0, len, 0)

\* strcmp and strcasecmp as the sign of the result
RECURSIVE strcmp(_, _)
strcmp(a, b) ==
    IF a = <<>> /\ b = <<>> THEN 0
    ELSE IF a = <<>> THEN -1
    ELSE IF b = <<>> THEN 1
    ELSE IF Head(a) < Head(b) THEN -1
    ELSE IF Head(a) > Head(b) THEN 1
    ELSE strcmp(Tail(a), Tail(b))

strcasecmp(a, b) ==
    strcmp([i \in 1..Len(a) |-> ToLower(a[i])], [i \in 1..Len(b) |-> ToLower(b[i])])

\* ui.c 42-56
compare_numeric_paths(sa, sb) ==
    LET a == basename_numeric_value(sa)
        b == basename_numeric_value(sb)
    IN IF a.ok /\ b.ok
       THEN IF a.value < b.value THEN -1
            ELSE IF a.value > b.value THEN 1
            ELSE strcmp(sa, sb)
       ELSE IF a.ok /\ ~b.ok THEN -1
       ELSE IF ~a.ok /\ b.ok THEN 1
       ELSE strcmp(sa, sb)

\* ui.c 177-181
compare_cstr(sa, sb) == strcasecmp(sa, sb)

\* qsort of distinct strings by one of the two comparators, which order
\* them totally
Compare(compar, x, y) ==
    IF compar = "compare_numeric_paths" THEN compare_numeric_paths(x, y)
    ELSE compare_cstr(x, y)

RECURSIVE InsertSorted(_, _, _)
InsertSorted(sorted, x, compar) ==
    IF sorted = <<>> THEN <<x>>
    ELSE IF Compare(compar, x, Head(sorted)) < 0 THEN <<x>> \o sorted
    ELSE <<Head(sorted)>> \o InsertSorted(Tail(sorted), x, compar)

RECURSIVE qsort(_, _)
qsort(xs, compar) ==
    IF xs = <<>> THEN <<>> ELSE InsertSorted(qsort(Tail(xs), compar), Head(xs), compar)

\* The readdir loop of scan_images, ui.c 71-84
RECURSIVE ImagePaths(_, _)
ImagePaths(dir_path, names) ==
    IF names = <<>> THEN <<>>
    ELSE LET d_name == Head(names)
             rest == ImagePaths(dir_path, Tail(names))
         IN IF d_name[1] = DOT \/ ~has_image_ext(d_name) THEN rest
            ELSE <<FullPath(dir_path, d_name)>> \o rest

\* ui.c 58-89, on the content dir found at dir_path
scan_images(dir_path, dir) ==
    IF ~dir.exists THEN <<>>
    ELSE qsort(ImagePaths(dir_path, dir.names), "compare_numeric_paths")

\* "assets"
assets_root == <<97, 115, 115, 101, 116, 115>>

\* What opendir and fopen find at a path of the file system fs
NoDir == [exists |-> FALSE, names |-> <<>>, openable |-> FALSE, lines |-> <<>>]
DirAt(fs, path) ==
    IF \E n \in DOMAIN fs : path = FullPath(assets_root, n)
    THEN fs[CHOOSE n \in DOMAIN fs : path = FullPath(assets_root, n)]
    ELSE NoDir

\* ui.c 194-235: the names of the directories below assets_root, sorted
build_menu(fs) ==
    LET shown == { n \in DOMAIN fs : n[1] # DOT }
        RECURSIVE AsSeq(_)
        AsSeq(S) == IF S = {} THEN <<>>
                    ELSE LET x == CHOOSE y \in S : TRUE IN <<x>> \o AsSeq(S \ {x})
        names == qsort(AsSeq(shown), "compare_cstr")
    IN [names |-> names, count |-> Len(names), selected |-> 0]

-----------------------------------------------------------------------------
(* main of the viewer (r36s_viewer.c 460-1364): the directory, the image   *)
(* list, the store and the subtitle message                                *)

MaxImages == 2

\* "s1", "s2": the directories below assets_root
MenuDirNames == { <<115, 49>>, <<115, 50>> }

\* "2.png", "1.png" for n = 2: the images in an order readdir may give
RECURSIVE ImageNames(_)
ImageNames(n) == IF n = 0 THEN <<>> ELSE << <<48 + n>> \o PngExt >> \o ImageNames(n - 1)

\* "1<TAB>t<TAB>a<TAB>p<TAB>q" / "1<TAB>t<TAB>b", "2<TAB>t<TAB>b"
TableA == << <<49, TAB, 116, TAB, 97, TAB, 112, TAB, 113, LF>> >>
TableB == << <<49, TAB, 116, TAB, 98, LF>>, <<50, TAB, 116, TAB, 98, LF>> >>

\* A directory without a table, or with a primary-language table, and its images
DirContents ==
    { [exists |-> TRUE, names |-> ImageNames(n), openable |-> FALSE, lines |-> <<>>]
        : n \in 0..MaxImages }
    \cup
    { [exists |-> TRUE, names |-> << <<97>> \o ZhtSuffix >> \o ImageNames(n),
       openable |-> TRUE, lines |-> t] : n \in 0..MaxImages, t \in {TableA, TableB} }

\* argv[1]: absent, "s1", "assets/s2", "zz"
DirectoryArgs ==
    { NULL, Ptr(<<115, 49>>), Ptr(FullPath(assets_root, <<115, 50>>)), Ptr(<<122, 122>>) }

InitViewer ==
    /\ fsys \in [MenuDirNames -> DirContents]
    /\ directory \in DirectoryArgs
    /\ vpc = "init"
    /\ menu_active = FALSE
    /\ menu = [names |-> <<>>, count |-> 0, selected |-> 0]
    /\ pathbuf = NULL
    /\ list = <<>>
    /\ index = 0
    /\ base = ZeroBaseData
    /\ current_text_msg = NULL
    /\ show_text = FALSE
    /\ LoadIdle
    /\ PairsIdle
    /\ LayoutIdle
    /\ EventsIdle

\* The subtitle of the image at index: the lookup by the image's time and
\* the message kept from it (r36s_viewer.c 598-610, 966-984)
SubtitleOf(b, paths, idx) ==
    LET t == basename_numeric_value(paths[idx + 1])
        entry == IF t.ok THEN find_entry_by_time(b, t.value) ELSE NULL
    IN IF entry # NULL /\ Deref(entry).zht_text # NULL
       THEN [msg |-> Deref(entry).zht_text, show |-> Deref(Deref(entry).zht_text) # <<>>]
       ELSE [msg |-> NULL, show |-> FALSE]

\* The directory part of a path, r36s_viewer.c 583-595
DirCopy(first_path) ==
    LET last_slash == strrchr(first_path, Slash)
    IN IF last_slash < 0 THEN NULL ELSE Ptr(SubSeq(first_path, 1, last_slash))

\* main up to the event loop, r36s_viewer.c 460-620
Startup ==
    /\ vpc = "init"
    /\ vpc' = "events"
    /\ menu_active' = (directory = NULL)
    /\ index' = 0
    /\ IF directory = NULL
       THEN /\ menu' = build_menu(fsys)
            /\ UNCHANGED <<pathbuf, list, base, current_text_msg, show_text>>
       ELSE LET path == IF \E i \in 1..Len(Deref(directory)) : Deref(directory)[i] = Slash
                        THEN Deref(directory)
                        ELSE FullPath(assets_root, Deref(directory))
                lst == scan_images(path, DirAt(fsys, path))
                dircopy == IF lst = <<>> THEN NULL ELSE DirCopy(lst[1])
                b == IF dircopy = NULL THEN ZeroBaseData
                     ELSE load_base_file_for_directory(Deref(dircopy),
                                                       DirAt(fsys, Deref(dircopy)))
            IN /\ pathbuf' = Ptr(path)
               /\ list' = lst
               /\ base' = b
               /\ IF lst = <<>>
                  THEN UNCHANGED <<current_text_msg, show_text>>
                  ELSE /\ current_text_msg' = SubtitleOf(b, lst, 0).msg
                       /\ show_text' = SubtitleOf(b, lst, 0).show
               /\ UNCHANGED menu
    /\ UNCHANGED <<fsys, directory>>
    /\ UNCHANGED <<loadVars, pairsVars, layVars, evVars>>

\* SDLK_DOWN / SDLK_s in the menu, r36s_viewer.c 950-951
MenuDown ==
    /\ vpc = "events" /\ menu_active
    /\ menu.count > 0
    /\ menu' = [menu EXCEPT !.selected = (menu.selected + 1) % menu.count]
    /\ UNCHANGED <<fsys, directory, vpc, menu_active, pathbuf, list, index, base,
                   current_text_msg, show_text>>
    /\ UNCHANGED <<loadVars, pairsVars, layVars, evVars>>

\* SDLK_UP / SDLK_w in the menu, r36s_viewer.c 952-953
MenuUp ==
    /\ vpc = "events" /\ menu_active
    /\ menu.count > 0
    /\ menu' = [menu EXCEPT !.selected = (menu.selected - 1 + menu.count) % menu.count]
    /\ UNCHANGED <<fsys, directory, vpc, menu_active, pathbuf, list, index, base,
                   current_text_msg, show_text>>
    /\ UNCHANGED <<loadVars, pairsVars, layVars, evVars>>

\* SDL_MOUSEMOTION over item i of the menu, r36s_viewer.c 997-1003
MenuMouseMotion ==
    /\ vpc = "events" /\ menu_active
    /\ \E i \in 0..(menu.count - 1) : menu' = [menu EXCEPT !.selected = i]
    /\ UNCHANGED <<fsys, directory, vpc, menu_active, pathbuf, list, index, base,
                   current_text_msg, show_text>>
    /\ UNCHANGED <<loadVars, pairsVars, layVars, evVars>>

\* snprintf(pathbuf, ..., "%s/%s", assets_root, menu.names[menu.selected])
SelectedPath == FullPath(assets_root, menu.names[menu.selected + 1])

\* SDLK_RETURN / SDLK_KP_ENTER in the menu, r36s_viewer.c 954-996
MenuEnter ==
    /\ vpc = "events" /\ menu_active
    /\ menu.count > 0
    /\ LET lst == scan_images(SelectedPath, DirAt(fsys, SelectedPath))
           b == load_base_file_for_directory(SelectedPath, DirAt(fsys, SelectedPath))
       IN /\ pathbuf' = Ptr(SelectedPath)
          /\ list' = lst
          /\ base' = b
          /\ index' = 0
          /\ IF lst = <<>>
             THEN UNCHANGED <<current_text_msg, show_text>>
             ELSE /\ current_text_msg' = SubtitleOf(b, lst, 0).msg
                  /\ show_text' = SubtitleOf(b, lst, 0).show
    /\ menu_active' = FALSE
    /\ UNCHANGED <<fsys, directory, vpc, menu>>
    /\ UNCHANGED <<loadVars, pairsVars, layVars, evVars>>

\* SDL_MOUSEBUTTONDOWN (left) in the menu, r36s_viewer.c 1004-1015
MenuMouseClick ==
    /\ vpc = "events" /\ menu_active
    /\ menu.count > 0
    /\ pathbuf' = Ptr(SelectedPath)
    /\ list' = scan_images(SelectedPath, DirAt(fsys, SelectedPath))
    /\ index' = 0
    /\ menu_active' = FALSE
    /\ UNCHANGED <<fsys, directory, vpc, menu, base, current_text_msg, show_text>>
    /\ UNCHANGED <<loadVars, pairsVars, layVars, evVars>>

\* SDL_CONTROLLER_BUTTON_B in the menu, r36s_viewer.c 1199-1210
MenuControllerB ==
    /\ vpc = "events" /\ menu_active
    /\ menu.count > 0
    /\ pathbuf' = Ptr(SelectedPath)
    /\ list' = scan_images(SelectedPath, DirAt(fsys, SelectedPath))
    /\ index' = 0
    /\ menu_active' = FALSE
    /\ UNCHANGED <<fsys, directory, vpc, menu, base, current_text_msg, show_text>>
    /\ UNCHANGED <<loadVars, pairsVars, layVars, evVars>>

NextViewer ==
    \/ Startup
    \/ MenuDown
    \/ MenuUp
    \/ MenuMouseMotion
    \/ MenuEnter
    \/ MenuMouseClick
    \/ MenuControllerB

SpecViewer == InitViewer /\ [][NextViewer]_vars

-----------------------------------------------------------------------------
(* Claims about the store of the active directory *)

\* C8: once a directory is active (chosen in the menu by Enter, by a mouse
\* click or by controller B, or given on the command line) and has images,
\* the store in use is the one a fresh load of that directory gives.
C8_StoreIsFreshLoadOfActiveDirectory ==
    (vpc = "events" /\ ~menu_active /\ list # <<>>) =>
        base = load_base_file_for_directory(Deref(pathbuf), DirAt(fsys, Deref(pathbuf)))

-----------------------------------------------------------------------------
(* Claims about the comma-separated encoding and the emission rule *)

\* s cut at every byte c: the parts between them, the part after the last
\* one included
RECURSIVE SplitAt(_, _)
SplitAt(s, c) ==
    LET e == ScanTo(s, 0, Len(s), c)
    IN IF e >= Len(s) THEN <<s>>
       ELSE <<SubSeq(s, 1, e)>> \o SplitAt(SubSeq(s, e + 2, Len(s)), c)

CommaSegments(s) == SplitAt(s, COMMA)

\* C11: in the comma-separated encoding the text is split on every ',' (the
\* part after the last comma is a segment too) and every segment gives the
\* pair the bracketed rule gives for the same content: word = prefix before
\* the first '(' when there is one, even after an earlier ':', else before
\* the first ':', else the whole segment; full text = the trimmed segment.
C11_CommaSegmentsFollowBracketedRule ==
    (ppc \in {"words", "items"} /\ pairs_str # NULL /\ Deref(pairs_str) # <<>>
        /\ Deref(pairs_str)[1] # LBRACKET) =>
        LET segs == CommaSegments(Deref(pairs_str))
            pairs == [k \in 1..Len(segs) |-> PairOfSegment(segs[k])]
            want == SelectSeq(pairs, Emitted)
        IN /\ out_count = Len(want)
           /\ Len(out_words) = Len(want)
           /\ \A i \in 1..Len(want) : out_words[i] = want[i].word
           /\ ppc = "items" =>
                 /\ Len(out_items) = Len(want)
                 /\ \A i \in 1..Len(want) : out_items[i] = want[i].item

\* The prefix of seg before its first '(' or ':', whichever comes first
PrefixBeforeEither(seg) ==
    LET at == { i \in 1..Len(seg) : seg[i] = LPAREN \/ seg[i] = COLON }
    IN IF at = {} THEN seg
       ELSE SubSeq(seg, 1, (CHOOSE i \in at : \A j \in at : i <= j) - 1)

\* The segments of a non-empty pairs string and the (word, full text) pair
\* each of them is a candidate for, in input order
CandidatePairs(s) ==
    IF s[1] = LBRACKET
    THEN LET segs == QuotedSegments(s)
         IN [k \in 1..Len(segs) |-> PairOfSegment(segs[k])]
    ELSE LET segs == CommaSegments(s)
         IN [k \in 1..Len(segs) |->
                [word |-> TrimBlanks(PrefixBeforeEither(segs[k])), item |-> TrimBlanks(segs[k])]]

\* C12: an item is emitted if and only if its trimmed word and its trimmed
\* full text are both non-empty; the output is, in input order, the
\* subsequence of the segments that pass this test, never longer than the
\* number of segments.
C12_EmittedIffBothNonEmptyInOrder ==
    (ppc = "items" /\ pairs_str # NULL /\ Deref(pairs_str) # <<>>) =>
        LET cands == CandidatePairs(Deref(pairs_str))
            want == SelectSeq(cands, Emitted)
        IN /\ out_count = Len(want)
           /\ out_count <= Len(cands)
           /\ Len(out_words) = out_count
           /\ Len(out_items) = out_count
           /\ \A i \in 1..out_count :
                 /\ out_words[i] = want[i].word /\ out_words[i] # <<>>
                 /\ out_items[i] = want[i].item /\ out_items[i] # <<>>

\* "a,,(" : of the three segments a, (empty) and "(" only the first is emitted
C12_Witness ==
    /\ ppc = "items"
    /\ pairs_str = Ptr(<<97, 44, 44, 40>>)
    /\ Len(CandidatePairs(Deref(pairs_str))) = 3
    /\ out_count = 1
    /\ out_words = << <<97>> >>
    /\ out_items = << <<97>> >>

-----------------------------------------------------------------------------
(* Claims about unterminated quotes and about totality *)

\* The last quote of s is an opening quote without a closing one
HasUnmatchedQuote(s) == Cardinality(QuotePositions(s)) % 2 = 1

\* s up to, not including, its last quote
BeforeLastQuote(s) == SubSeq(s, 1, NthQuote(s, Cardinality(QuotePositions(s))) - 1)

\* C13: in the bracketed encoding an opening quote without a closing quote
\* stops the scan: the result is exactly the items of the complete quoted
\* segments before it, and nothing is produced from the text after it.
C13_UnterminatedQuoteStopsScan ==
    (ppc = "items" /\ pairs_str # NULL /\ Deref(pairs_str) # <<>>
        /\ Deref(pairs_str)[1] = LBRACKET /\ HasUnmatchedQuote(Deref(pairs_str))) =>
        LET segs == QuotedSegments(BeforeLastQuote(Deref(pairs_str)))
            want == SelectSeq([k \in 1..Len(segs) |-> PairOfSegment(segs[k])], Emitted)
        IN /\ out_count = Len(want)
           /\ Len(out_words) = Len(want)
           /\ Len(out_items) = Len(want)
           /\ \A i \in 1..Len(want) :
                 out_words[i] = want[i].word /\ out_items[i] = want[i].item

\* ["a", "b  gives the one item (a, a); nothing comes from the text after the
\* third quote
C13_Witness ==
    /\ ppc = "items"
    /\ pairs_str = Ptr(<<91, 34, 97, 34, 44, 32, 34, 98>>)
    /\ HasUnmatchedQuote(Deref(pairs_str))
    /\ out_count = 1
    /\ out_words = << <<97>> >>
    /\ out_items = << <<97>> >>

\* C14: the parsers never fail. For every input, the absent and the empty
\* string included, each parser returns a result; the count it
\* returns is the number of items returned; for an absent or empty pairs
\* string the result is empty.
C14_ParserNeverFails ==
    /\ ppc = "input" =>
          /\ extract_words_from_pairs(pairs_str).count \in Nat
          /\ extract_words_and_items_from_pairs(pairs_str).count \in Nat
    /\ ppc \in {"words", "items"} =>
          /\ out_count = Len(out_words)
          /\ ppc = "items" => out_count = Len(out_items)
          /\ (pairs_str = NULL \/ pairs_str = Ptr(<<>>)) =>
                (out_count = 0 /\ out_words = <<>> /\ out_items = <<>>)

\* "[ , :" (a bracket, separators and blanks, no quote) parsed to nothing
C14_Witness ==
    /\ ppc = "items"
    /\ pairs_str = Ptr(<<LBRACKET, SP, COMMA, SP, COLON>>)
    /\ out_count = 0
    /\ out_words = <<>>
    /\ out_items = <<>>

(***************************************************************************)
(* text.c and r36s_viewer.c: the subtitle layout (one x offset and one     *)
(* width per codepoint) and the word layout (one span per occurrence of a  *)
(* word of the record's pairs).                                            *)
(*                                                                         *)
(* The font is the function shaper: a glyph of len bytes is               *)
(* shaper[len] * font_px \div 2 pixels wide, a rendered line is as wide as  *)
(* its glyphs and font_px pixels high; a font file is always found.       *)
(* A byte read behind the terminator of a string, and an int read from    *)
(* malloc'ed memory that was never written, has the value junk.           *)
(***************************************************************************)

\* (b & 0xC0) == 0x80
IsContinuation(b) == b \in 128..191

\* int utf8_count_codepoints(const char *s)
utf8_count_codepoints(s) ==
    Cardinality({i \in 1..Len(s) : ~IsContinuation(s[i])})

\* the length chosen from the lead byte, text.c 197-198
LeadLen(b) ==
    IF b \in 192..223 THEN 2
    ELSE IF b \in 224..239 THEN 3
    ELSE IF b \in 240..247 THEN 4
    ELSE 1

\* p[i] for a pointer p into msg: the terminator at Len(msg), junk behind it
ByteAt(msg, i, jk) ==
    IF i < Len(msg) THEN msg[i + 1] ELSE IF i = Len(msg) THEN 0 ELSE jk

\* TTF_SizeUTF8(font, buf, &w_cp, &h_cp) for a buf of len bytes
Measure(sh, len, font_px) == (sh[len] * font_px) \div 2

\* the loop of recreate_text_with_layout, text.c 195-208; the arrays were
\* calloc'ed, so the entries the loop does not reach are 0
RECURSIVE LayoutLoop(_, _, _, _, _, _, _, _, _)
LayoutLoop(msg, sh, jk, font_px, cp_total, p, idx, accum_w, lay) ==
    IF ByteAt(msg, p, jk) # 0 /\ idx < cp_total
    THEN LET len  == LeadLen(ByteAt(msg, p, jk))
             w_cp == Measure(sh, len, font_px)
         IN LayoutLoop(msg, sh, jk, font_px, cp_total, p + len, idx + 1,
                       accum_w + w_cp,
                       [lay EXCEPT !.x_offsets = Append(@, accum_w),
                                   !.widths = Append(@, w_cp)])
    ELSE [lay EXCEPT
            !.x_offsets = @ \o [i \in 1..(cp_total - idx) |-> 0],
            !.widths = @ \o [i \in 1..(cp_total - idx) |-> 0]]

\* surf->w of TTF_RenderUTF8_Blended(font, msg, white)
RECURSIVE SurfaceWidth(_, _, _, _)
SurfaceWidth(msg, sh, font_px, p) ==
    IF p >= Len(msg) THEN 0
    ELSE Measure(sh, LeadLen(msg[p + 1]), font_px)
         + SurfaceWidth(msg, sh, font_px, p + LeadLen(msg[p + 1]))

MaxAttempts == 6
MinFontPx == 18
MaxFontPx == 200
FloorFontPx == 14

\* the attempts of recreate_text_with_layout, text.c 177-216: [ok, layout]
RECURSIVE FitLoop(_, _, _, _, _, _, _)
FitLoop(msg, sh, jk, w, font_px, cp_total, attempt) ==
    IF attempt >= MaxAttempts
    THEN [ok |-> FALSE, layout |-> ZeroSubtitleLayout]
    ELSE LET max_height == (w[2] * 28) \div 100
             max_width  == w[1] - 64
             surf_w     == SurfaceWidth(msg, sh, font_px, 0)
            too_wide   == surf_w > max_width
             too_tall   == font_px > max_height
             shrunk     == (font_px * 85) \div 100
         IN IF surf_w = 0 THEN [ok |-> FALSE, layout |-> ZeroSubtitleLayout]
            ELSE IF ~too_wide /\ ~too_tall
            THEN [ok |-> TRUE,
                  layout |-> LayoutLoop(msg, sh, jk, font_px, cp_total, 0, 0, 0,
                               [count |-> cp_total, x_offsets |-> <<>>,
                                widths |-> <<>>, font_px |-> font_px])]
            ELSE FitLoop(msg, sh, jk, w,
                         IF shrunk < FloorFontPx THEN FloorFontPx ELSE shrunk,
                         cp_total, attempt + 1)

\* font_px before the first attempt, without the two bounds
StartFontPxUnbounded(w, bias, cp_total) ==
    LET px0 == w[2] \div 5
        px1 == IF cp_total > 6 THEN (px0 * 6) \div 10 ELSE px0
    IN px1 + bias

\* font_px before the first attempt, text.c 168-173 (and 69-75 in recreate_text)
StartFontPx(w, bias, cp_total) ==
    LET px0 == w[2] \div 5
        px1 == IF cp_total > 6 THEN (px0 * 6) \div 10 ELSE px0
        px2 == px1 + bias
    IN IF px2 < MinFontPx THEN MinFontPx
       ELSE IF px2 > MaxFontPx THEN MaxFontPx ELSE px2

\* int recreate_text_with_layout(renderer, win_w, win_h, msg, ...): [ok, layout]
recreate_text_with_layout(w, bias, sh, jk, msg) ==
    LET cp_total == utf8_count_codepoints(msg)
    IN FitLoop(msg, sh, jk, w, StartFontPx(w, bias, cp_total), cp_total, 0)

\* the loop of build_word_layout, r36s_viewer.c 178-185: the malloc'ed
\* array cp_byte_index, whose entries the loop does not reach hold junk
RECURSIVE CpByteIndexLoop(_, _, _, _, _)
CpByteIndexLoop(s, total_cp, jk, byte_idx, arr) ==
    IF byte_idx < Len(s) /\ Len(arr) < total_cp
    THEN CpByteIndexLoop(s, total_cp, jk, byte_idx + LeadLen(s[byte_idx + 1]),
                         Append(arr, byte_idx))
    ELSE arr \o [i \in 1..(total_cp - Len(arr)) |-> jk]

\* static int byte_to_cp_linear(const int *cp_byte_index, int total_cp, int bidx)
RECURSIVE ByteToCpFrom(_, _, _, _)
ByteToCpFrom(cbi, total_cp, bidx, i) ==
    IF i + 1 < total_cp /\ cbi[i + 2] <= bidx
    THEN ByteToCpFrom(cbi, total_cp, bidx, i + 1)
    ELSE i

byte_to_cp_linear(cbi, total_cp, bidx) == ByteToCpFrom(cbi, total_cp, bidx, 0)

\* strstr(pos, needle) for pos = s + from: the offset in s of the match, or -1
strstr_from(s, from, needle) ==
    LET hits == {o \in from..(Len(s) - Len(needle)) :
                    SubSeq(s, o + 1, o + Len(needle)) = needle}
    IN IF hits = {} THEN -1
       ELSE CHOOSE o \in hits : \A o2 \in hits : o <= o2

\* A search that resumes one byte after the start of the previous match
RECURSIVE NeedleSpansOverlapping(_, _, _, _, _)
NeedleSpansOverlapping(s, layout, cbi, needle, pos) ==
    LET off == strstr_from(s, pos, needle)
    IN IF off < 0 THEN <<>>
       ELSE LET start_cp == byte_to_cp_linear(cbi, layout.count, off)
                len_cp   == utf8_count_codepoints(needle)
                end_cp   == IF start_cp + len_cp > layout.count THEN layout.count
                            ELSE start_cp + len_cp
                x        == layout.x_offsets[start_cp + 1]
                wpx      == IF end_cp - 1 >= 0
                            THEN layout.x_offsets[end_cp] + layout.widths[end_cp] - x
                            ELSE 0
                rest     == NeedleSpansOverlapping(s, layout, cbi, needle, off + 1)
            IN IF wpx <= 0 THEN rest
               ELSE <<[start_cp |-> start_cp, end_cp |-> end_cp,
                       x |-> x, w |-> wpx]>> \o rest

\* A search that keeps the occurrences of no width
RECURSIVE NeedleSpansKeepingEmpty(_, _, _, _, _)
NeedleSpansKeepingEmpty(s, layout, cbi, needle, pos) ==
    LET off == strstr_from(s, pos, needle)
    IN IF off < 0 THEN <<>>
       ELSE LET start_cp == byte_to_cp_linear(cbi, layout.count, off)
                len_cp   == utf8_count_codepoints(needle)
                end_cp   == IF start_cp + len_cp > layout.count THEN layout.count
                            ELSE start_cp + len_cp
                x        == layout.x_offsets[start_cp + 1]
                wpx      == IF end_cp - 1 >= 0
                            THEN layout.x_offsets[end_cp] + layout.widths[end_cp] - x
                            ELSE 0
            IN <<[start_cp |-> start_cp, end_cp |-> end_cp, x |-> x, w |-> wpx]>>
               \o NeedleSpansKeepingEmpty(s, layout, cbi, needle, off + Len(needle))

\* the while loop of build_word_layout for one needle, r36s_viewer.c 191-202
RECURSIVE NeedleSpans(_, _, _, _, _)
NeedleSpans(s, layout, cbi, needle, pos) ==
    LET off == strstr_from(s, pos, needle)
    IN IF off < 0 THEN <<>>
       ELSE LET total_cp == layout.count
                start_cp == byte_to_cp_linear(cbi, total_cp, off)
                len_cp   == utf8_count_codepoints(needle)
                end_cp   == IF start_cp + len_cp > total_cp THEN total_cp
                            ELSE start_cp + len_cp
                x        == layout.x_offsets[start_cp + 1]
                end_x    == IF end_cp - 1 >= 0
                            THEN layout.x_offsets[end_cp] + layout.widths[end_cp]
                            ELSE x
                wpx      == end_x - x
                rest     == NeedleSpans(s, layout, cbi, needle, off + Len(needle))
            IN IF wpx <= 0 THEN rest
               ELSE <<[start_cp |-> start_cp, end_cp |-> end_cp,
                       x |-> x, w |-> wpx]>> \o rest

\* the for loop of build_word_layout over the words, r36s_viewer.c 188-203
RECURSIVE WordsSpans(_, _, _, _)
WordsSpans(s, layout, cbi, ws) ==
    IF ws = <<>> THEN <<>>
    ELSE (IF Head(ws) = <<>> THEN <<>>
          ELSE NeedleSpans(s, layout, cbi, Head(ws), 0))
         \o WordsSpans(s, layout, cbi, Tail(ws))

\* static void build_word_layout(zht_text, layout, words, word_count, out_layout):
\* the spans of out_layout (out_layout->count is their number) and the array
\* cp_byte_index it worked with
build_word_layout(zht_text, layout, ws, jk) ==
    IF zht_text = NULL \/ Deref(zht_text) = <<>> \/ layout.count <= 0 \/ Len(ws) <= 0
    THEN [spans |-> <<>>, cbi |-> <<>>]
    ELSE LET cbi == CpByteIndexLoop(Deref(zht_text), layout.count, jk, 0, <<>>)
         IN [spans |-> WordsSpans(Deref(zht_text), layout, cbi, ws), cbi |-> cbi]

\* static void rebuild_subtitle(renderer, win_w, win_h, msg, text_tex,
\* text_rect, layout, show_text, hover_index)
rebuild_subtitle(w, bias, sh, jk, msg) ==
    IF msg = NULL \/ Deref(msg) = <<>>
    THEN [layout |-> ZeroSubtitleLayout, show_text |-> FALSE, hover_index |-> -1]
    ELSE LET r == recreate_text_with_layout(w, bias, sh, jk, Deref(msg))
         IN [layout |-> r.layout, show_text |-> r.ok, hover_index |-> -1]

(***************************************************************************)
(* The two layouts as functions of a subtitle, a pairs text, a font and a  *)
(* window: the subtitle is laid out, then the word layout is built from    *)
(* the words of the pairs text.                                            *)
(***************************************************************************)
MaxSubtitleLen == 4

\* 'a', 'b', the lead byte 0xC3 of a 2-byte sequence, the continuation 0xA9
SubtitleAlphabet == {97, 98, 195, 169}

NiHaoShiJie == <<228, 189, 160, 229, 165, 189, 228, 184, 150, 231, 149, 140>>
ShiJie == <<228, 184, 150, 231, 149, 140>>

LongSubtitles ==
    { NiHaoShiJie,
      <<97, 98>> \o ShiJie \o <<97>>,
      ShiJie \o ShiJie \o <<228, 184>>,
      <<240, 159, 152, 128, 97, 240, 159, 152, 128>> }

SubtitleStrings == SeqsUpTo(SubtitleAlphabet, MaxSubtitleLen) \cup LongSubtitles

LayoutPairs ==
    { NULL,
      Ptr(<<97>>),
      Ptr(<<97, COMMA, 98>>),
      Ptr(<<98, COMMA, 97>>),
      Ptr(<<97, 98, COMMA, 97>>),
      Ptr(<<97, 97>>),
      Ptr(<<195, 169, COLON, 97, COMMA, 195, 169, 97>>),
      Ptr(<<LBRACKET, QUOTE>> \o ShiJie \o <<LPAREN, 97, 41, COLON, SP, 98, QUOTE, 93>>),
      Ptr(<<169>>) }

Shapers == { <<1, 1, 2, 2>>, <<0, 1, 2, 2>>, <<2, 0, 1, 1>> }

Windows == { <<640, 480>>, <<80, 480>> }

JunkValues == {0, 255}

InitLayout ==
    /\ LoadIdle
    /\ menu_active = FALSE /\ menu = [names |-> <<>>, count |-> 0, selected |-> 0]
    /\ fsys = <<>> /\ directory = NULL /\ vpc = "off" /\ pathbuf = NULL
    /\ list = <<>> /\ index = 0 /\ base = ZeroBaseData
    /\ current_text_msg \in {Ptr(m) : m \in SubtitleStrings}
    /\ show_text = FALSE
    /\ pairs_str \in LayoutPairs
    /\ out_words = <<>> /\ out_items = <<>> /\ out_count = 0 /\ ppc = "off"
    /\ win \in Windows
    /\ shaper \in Shapers
    /\ g_subtitle_font_bias_px = 0
    /\ junk \in JunkValues
    /\ sub_layout = ZeroSubtitleLayout
    /\ word_layout = <<>>
    /\ hover_index = -1
    /\ cp_byte_index = <<>>
    /\ lpc = "start"
    /\ EventsIdle

\* rebuild_subtitle(renderer, win_w, win_h, current_text_msg, ...), r36s_viewer.c 973
RebuildSubtitle ==
    /\ lpc = "start"
    /\ LET r == rebuild_subtitle(win, g_subtitle_font_bias_px, shaper, junk,
                                 current_text_msg)
       IN /\ sub_layout' = r.layout
          /\ show_text' = r.show_text
          /\ hover_index' = r.hover_index
    /\ lpc' = "laid"
    /\ UNCHANGED <<win, shaper, g_subtitle_font_bias_px, junk, word_layout, cp_byte_index>>
    /\ UNCHANGED <<fsys, directory, vpc, menu_active, menu, pathbuf, list, index,
                   base, current_text_msg>>
    /\ UNCHANGED <<loadVars, pairsVars, evVars>>

\* extract_words_from_pairs(pairs_m, &words_m, &wc_m);
\* build_word_layout(current_text_msg, &sub_layout, words_m, wc_m, &word_layout),
\* r36s_viewer.c 975-979
BuildWordLayout ==
    /\ lpc = "laid"
    /\ LET ws == extract_words_from_pairs(pairs_str)
           r == build_word_layout(current_text_msg, sub_layout, ws.words, junk)
       IN /\ word_layout' = r.spans
          /\ cp_byte_index' = r.cbi
    /\ lpc' = "built"
    /\ UNCHANGED <<win, shaper, g_subtitle_font_bias_px, junk, sub_layout, hover_index>>
    /\ UNCHANGED <<loadVars, pairsVars, viewVars, evVars>>

NextLayout == RebuildSubtitle \/ BuildWordLayout

SpecLayout == InitLayout /\ [][NextLayout]_vars

(***************************************************************************)
(* Claims about the codepoint index                                        *)
(***************************************************************************)
\* The encoded lengths of the codepoints of s, each taken from the class of
\* its lead byte
RECURSIVE EncodedLens(_)
EncodedLens(s) ==
    IF s = <<>> THEN <<>>
    ELSE LET n == LeadLen(Head(s))
         IN <<n>> \o (IF n >= Len(s) THEN <<>> ELSE EncodedLens(SubSeq(s, n + 1, Len(s))))

RECURSIVE SumOf(_, _)
SumOf(ns, k) == IF k = 0 THEN 0 ELSE ns[k] + SumOf(ns, k - 1)

\* s is a sequence of complete UTF-8 sequences: a lead byte of each class is
\* followed by the continuation bytes of its class and by nothing else
RECURSIVE WellFormedUtf8(_)
WellFormedUtf8(s) ==
    \/ s = <<>>
    \/ /\ ~IsContinuation(Head(s))
       /\ Head(s) < 248
       /\ LeadLen(Head(s)) <= Len(s)
       /\ \A i \in 2..LeadLen(Head(s)) : IsContinuation(s[i])
       /\ WellFormedUtf8(SubSeq(s, LeadLen(Head(s)) + 1, Len(s)))

\* The index of the subtitle exists: the subtitle is empty (an index of
\* length 0) or its rendering succeeded
IndexBuilt ==
    /\ lpc \in {"laid", "built"}
    /\ (show_text \/ Deref(current_text_msg) = <<>>)

IndexInvariant ==
    LET lens == EncodedLens(Deref(current_text_msg))
    IN /\ sub_layout.count = Len(lens)
       /\ Len(sub_layout.x_offsets) = Len(lens)
       /\ Len(sub_layout.widths) = Len(lens)
       /\ Len(lens) > 0 => sub_layout.x_offsets[1] = 0
       /\ \A i \in 1..(Len(lens) - 1) :
             sub_layout.x_offsets[i + 1] = sub_layout.x_offsets[i] + sub_layout.widths[i]
       /\ (lpc = "built" /\ cp_byte_index # <<>>) =>
             /\ Len(cp_byte_index) = Len(lens)
             /\ \A i \in 1..Len(lens) : cp_byte_index[i] = SumOf(lens, i - 1)
             /\ \A i \in 1..(Len(lens) - 1) : cp_byte_index[i] < cp_byte_index[i + 1]

\* C15: for every subtitle string the codepoint index has one entry per
\* codepoint (none for the empty string), x_offset[0] = 0,
\* x_offset[i+1] = x_offset[i] + width[i], and the byte offset of codepoint i
\* is strictly increasing and is the sum of the encoded lengths (by lead-byte
\* class) of the codepoints before it.
C15_CodepointIndexInvariant == IndexBuilt => IndexInvariant

\* The same for the subtitles that are well-formed UTF-8
C15_HoldsForWellFormedUtf8 ==
    (IndexBuilt /\ WellFormedUtf8(Deref(current_text_msg))) => IndexInvariant

(***************************************************************************)
(* Claims about the word layout                                            *)
(***************************************************************************)
\* The byte offsets of the occurrences of needle in s that do not overlap:
\* the first one at or after from, then the first one after its end
RECURSIVE Occurrences(_, _, _)
Occurrences(s, needle, from) ==
    IF \A o \in from..(Len(s) - Len(needle)) : SubSeq(s, o + 1, o + Len(needle)) # needle
    THEN <<>>
    ELSE LET o == CHOOSE o \in from..(Len(s) - Len(needle)) :
                     /\ SubSeq(s, o + 1, o + Len(needle)) = needle
                     /\ \A o2 \in from..(o - 1) : SubSeq(s, o2 + 1, o2 + Len(needle)) # needle
         IN <<o>> \o Occurrences(s, needle, o + Len(needle))

\* The codepoints of s that start before byte offset o
CodepointsBefore(s, o) == Cardinality({i \in 1..o : ~IsContinuation(s[i])})

\* The codepoint range of the occurrence of needle at byte offset o of s
RangeOf(s, needle, o) ==
    <<CodepointsBefore(s, o), CodepointsBefore(s, o) + CodepointsBefore(needle, Len(needle))>>

\* The codepoint ranges of the occurrences of each word, word after word
RECURSIVE RangesOfWords(_, _)
RangesOfWords(s, ws) ==
    IF ws = <<>> THEN <<>>
    ELSE [k \in 1..Len(Occurrences(s, Head(ws), 0)) |->
             RangeOf(s, Head(ws), Occurrences(s, Head(ws), 0)[k])]
         \o RangesOfWords(s, Tail(ws))

\* The pixels from the start of codepoint r[1] to the end of codepoint r[2] - 1
PixelsOf(r) ==
    sub_layout.x_offsets[r[2]] + sub_layout.widths[r[2]] - sub_layout.x_offsets[r[1] + 1]

HasPixels(r) == PixelsOf(r) > 0

\* The word layout was built for a displayed subtitle and for words that are
\* well-formed UTF-8
SpansBuilt ==
    /\ lpc = "built"
    /\ show_text
    /\ WellFormedUtf8(Deref(current_text_msg))
    /\ \A k \in 1..Len(extract_words_from_pairs(pairs_str).words) :
          WellFormedUtf8(extract_words_from_pairs(pairs_str).words[k])

InRange(seq, r) == \E k \in 1..Len(seq) : seq[k] = r

StoreOf(es) ==
    [ZeroBaseData EXCEPT !.entries = es, !.count = Len(es), !.entries_capacity = Len(es)]

\* basename_numeric_value(list.paths[idx], &img_time); find_entry_by_time(&base, img_time)
EntryOfImage(b, paths, idx) ==
    LET t == basename_numeric_value(paths[idx + 1])
    IN IF t.ok THEN find_entry_by_time(b, t.value) ELSE NULL

\* static void refresh_word_layout_for_time(base, time_seconds, current_text_msg,
\* sub_layout, word_layout, out_pair_words, out_pair_items, out_pair_count):
\* the spans, and the words and the count kept for the hover
refresh_word_layout_for_time(entry, msg, layout, jk, cache, count) ==
    IF msg = NULL \/ Deref(msg) = <<>> \/ layout.count <= 0
    THEN [spans |-> <<>>, words |-> cache, count |-> count]
    ELSE LET pairs == IF entry # NULL THEN Deref(entry).pairs_text ELSE NULL
             ws == extract_words_from_pairs(pairs)
         IN [spans |-> build_word_layout(msg, layout, ws.words, jk).spans,
             words |-> ws.words, count |-> ws.count]

\* the two loops of utf8_substr_by_cp, r36s_viewer.c 321-327
RECURSIVE SkipCodepoints(_, _, _, _)
SkipCodepoints(s, i, cp, until_cp) ==
    IF i < Len(s) /\ cp < until_cp
    THEN SkipCodepoints(s, i + LeadLen(s[i + 1]), cp + 1, until_cp)
    ELSE i

\* static char *utf8_substr_by_cp(const char *s, int start_cp, int end_cp)
utf8_substr_by_cp(s, start_cp, end_cp) ==
    IF s = NULL \/ start_cp < 0 \/ end_cp <= start_cp THEN NULL
    ELSE LET start_byte == SkipCodepoints(Deref(s), 0, 0, start_cp)
             end_byte == SkipCodepoints(Deref(s), start_byte, start_cp, end_cp)
             last == IF end_byte > Len(Deref(s)) THEN Len(Deref(s)) ELSE end_byte
         IN IF end_byte - start_byte <= 0 THEN NULL
            ELSE Ptr(SubSeq(Deref(s), start_byte + 1, last))

\* "N/A"
NotAvailable == <<78, 47, 65>>

\* the first item whose word is hover_word, r36s_viewer.c 353-359
RECURSIVE FirstItemOf(_, _, _, _)
FirstItemOf(words, items, hover_word, i) ==
    IF i > Len(words) THEN NULL
    ELSE IF words[i] = hover_word THEN Ptr(items[i])
    ELSE FirstItemOf(words, items, hover_word, i + 1)

\* one space before the first '(' that has a character before it, a space or not
NormalizeParenAlways(d) ==
    LET lp == ScanTo(d, 0, Len(d), LPAREN)
    IN IF lp < Len(d) /\ lp > 0
       THEN SubSeq(d, 1, lp) \o <<SP>> \o SubSeq(d, lp + 1, Len(d))
       ELSE d

\* one space before the first '(', at the start of the text too
NormalizeParenAtStart(d) ==
    LET lp == ScanTo(d, 0, Len(d), LPAREN)
    IN IF lp < Len(d) /\ (lp = 0 \/ d[lp] # SP)
       THEN SubSeq(d, 1, lp) \o <<SP>> \o SubSeq(d, lp + 1, Len(d))
       ELSE d

\* one space before the first '(' when it follows a character that is not
\* a space, r36s_viewer.c 371-385
NormalizeParen(d) ==
    LET lp == ScanTo(d, 0, Len(d), LPAREN)
    IN IF lp < Len(d) /\ lp > 0 /\ d[lp] # SP
       THEN SubSeq(d, 1, lp) \o <<SP>> \o SubSeq(d, lp + 1, Len(d))
       ELSE d

\* display_owned with "N/A" for every word that no item matches
display_owned_without_raw(msg, entry, wl, pair_count, hi) ==
    LET hover_word == utf8_substr_by_cp(msg, wl[hi + 1].start_cp, wl[hi + 1].end_cp)
        pairs == IF entry # NULL THEN Deref(entry).pairs_text ELSE NULL
        parsed == extract_words_and_items_from_pairs(pairs)
        matched == IF hover_word # NULL /\ pair_count > 0
                      /\ pairs # NULL /\ Deref(pairs) # <<>>
                   THEN FirstItemOf(parsed.words, parsed.items, Deref(hover_word), 1)
                   ELSE NULL
    IN IF matched # NULL THEN Deref(matched) ELSE NotAvailable

\* display_owned before it is normalised, r36s_viewer.c 343-371: the item
\* matched, else the pairs text of the record, else "N/A"
display_owned(msg, entry, wl, pair_count, hi) ==
    LET hover_word == utf8_substr_by_cp(msg, wl[hi + 1].start_cp, wl[hi + 1].end_cp)
        pairs == IF entry # NULL THEN Deref(entry).pairs_text ELSE NULL
        parsed == extract_words_and_items_from_pairs(pairs)
        matched == IF hover_word # NULL /\ pair_count > 0
                      /\ pairs # NULL /\ Deref(pairs) # <<>>
                   THEN FirstItemOf(parsed.words, parsed.items, Deref(hover_word), 1)
                   ELSE NULL
    IN IF matched # NULL THEN Deref(matched)
       ELSE IF pairs # NULL /\ Deref(pairs) # <<>> THEN Deref(pairs)
       ELSE NotAvailable

\* static void update_hover_info_by_time(...): the new *hover_tex, as the
\* text the label shows
update_hover_info_by_time(msg, entry, layout, wl, pair_count, hi) ==
    IF msg = NULL \/ hi < 0 \/ hi >= Len(wl) THEN NULL
    ELSE Ptr(NormalizeParen(display_owned(msg, entry, wl, pair_count, hi)))

\* The bias steps the model follows above 0, of 2 px each
MaxBiasSteps == 1

MinBias == -50
MaxBias == 100

\* "assets/d/1.png", "assets/d/2.png", "assets/d/3.png": the list as
\* scan_images sorts it
EventImages ==
    [k \in 1..3 |-> FullPath(FullPath(assets_root, <<100>>), <<48 + k>> \o PngExt)]

\* the records of the table of "d": image 1 with a subtitle whose words occur
\* in it, image 2 with a subtitle in which no word occurs, image 3 without
EventStore ==
    StoreOf(<< [time_seconds |-> 1, zht_text |-> Ptr(<<97, 98>>),
                pairs_text |-> Ptr(<<97, LPAREN, 120, 41, COLON, 121, COMMA, 98>>),
                pt_text |-> Ptr(<<112>>)],
               [time_seconds |-> 2, zht_text |-> Ptr(<<98, 97>>),
                pairs_text |-> Ptr(<<99, COLON, 122>>),
                pt_text |-> NULL] >>)

\* what scan_images and the load of the store give for the directory at
\* path: the images and the records of "assets/d", and nothing for any other
\* directory, such as "assets/e", which holds no image and no table
EventDirImages(path) ==
    IF path = FullPath(assets_root, <<100>>) THEN EventImages ELSE <<>>

EventDirStore(path) ==
    IF path = FullPath(assets_root, <<100>>) THEN EventStore ELSE ZeroBaseData

EventWindows == { <<640, 480>>, <<320, 240>> }

\* what a read through a pointer to a freed string s may give: the bytes
\* still there, other bytes, or a terminator at once
DanglingReads(s, jk) == {s, <<jk>>, <<>>}

\* main up to the event loop when it is started without a directory
\* argument (r36s_viewer.c 460-574): the menu of the directories below
\* assets_root, here "d" and "e", is active, no image is listed and the
\* variables of the loop are as they are declared
InitEvents ==
    /\ LoadIdle
    /\ PairsIdle
    /\ EventsIdle
    /\ win = <<640, 480>>
    /\ shaper = <<1, 1, 2, 2>>
    /\ g_subtitle_font_bias_px = 0
    /\ junk = 255
    /\ sub_layout = ZeroSubtitleLayout
    /\ word_layout = <<>>
    /\ hover_index = -1
    /\ cp_byte_index = <<>>
    /\ lpc = "off"
    /\ fsys = <<>> /\ directory = NULL /\ vpc = "events" /\ pathbuf = NULL
    /\ menu_active = TRUE /\ menu = [names |-> << <<100>>, <<101>> >>, count |-> 2, selected |-> 0]
    /\ list = <<>>
    /\ index = 0
    /\ base = ZeroBaseData
    /\ current_text_msg = NULL
    /\ show_text = FALSE

EventsFixed ==
    UNCHANGED <<fsys, directory, vpc, menu_active, menu, pathbuf, list, base,
                shaper, junk, cp_byte_index, lpc, loadVars, pairsVars>>

\* The image at new_index is shown and navigation is left unlocked on it
ShowImageWithoutLock(new_index, refresh) ==
    LET entry == EntryOfImage(base, list, new_index)
    IN /\ index' = new_index
       /\ show_pt' = FALSE
       /\ current_pt_msg' = NULL
       /\ IF entry # NULL /\ Deref(entry).zht_text # NULL
          THEN LET msg == Deref(entry).zht_text
                   r == rebuild_subtitle(win, g_subtitle_font_bias_px, shaper, junk, msg)
                   f == refresh_word_layout_for_time(entry, msg, r.layout, junk,
                                                     pair_words_cache, pair_words_count)
               IN /\ current_text_msg' = msg
                  /\ sub_layout' = r.layout
                  /\ show_text' = r.show_text
                  /\ hover_index' = -1
                  /\ locked_on_subtitle' = FALSE
                  /\ IF refresh
                     THEN /\ word_layout' = f.spans
                          /\ pair_words_cache' = f.words
                          /\ pair_words_count' = f.count
                     ELSE UNCHANGED <<word_layout, pair_words_cache, pair_words_count>>
          ELSE /\ current_text_msg' = NULL
               /\ show_text' = FALSE
               /\ locked_on_subtitle' = FALSE
               /\ UNCHANGED <<sub_layout, hover_index, word_layout, pair_words_cache,
                              pair_words_count>>
       /\ UNCHANGED <<win, g_subtitle_font_bias_px, hover_info_tex>>
       /\ EventsFixed

\* The image at new_index is shown: the body shared by the navigation
\* handlers (r36s_viewer.c 757-785, 825-851, 874-901, 1037-1063, 1086-1112,
\* 1214-1242); refresh tells whether the handler calls
\* refresh_word_layout_for_time after rebuild_subtitle
ShowImage(new_index, refresh) ==
    LET entry == EntryOfImage(base, list, new_index)
    IN /\ index' = new_index
       /\ show_pt' = FALSE
       /\ current_pt_msg' = NULL
       /\ IF entry # NULL /\ Deref(entry).zht_text # NULL
          THEN LET msg == Deref(entry).zht_text
                   r == rebuild_subtitle(win, g_subtitle_font_bias_px, shaper, junk, msg)
                   f == refresh_word_layout_for_time(entry, msg, r.layout, junk,
                                                     pair_words_cache, pair_words_count)
               IN /\ current_text_msg' = msg
                  /\ sub_layout' = r.layout
                  /\ show_text' = r.show_text
                  /\ hover_index' = -1
                  /\ locked_on_subtitle' = TRUE
                  /\ IF refresh
                     THEN /\ word_layout' = f.spans
                          /\ pair_words_cache' = f.words
                          /\ pair_words_count' = f.count
                     ELSE UNCHANGED <<word_layout, pair_words_cache, pair_words_count>>
          ELSE /\ current_text_msg' = NULL
               /\ show_text' = FALSE
               /\ locked_on_subtitle' = FALSE
               /\ UNCHANGED <<sub_layout, hover_index, word_layout, pair_words_cache,
                              pair_words_count>>
       /\ UNCHANGED <<win, g_subtitle_font_bias_px, hover_info_tex>>
       /\ EventsFixed

\* SDLK_RETURN / SDLK_KP_ENTER in the menu, r36s_viewer.c 955-996: the
\* images and the store of the selected directory replace the list and the
\* store; if there is an image, the first one is shown and the word layout
\* is built from the words of its record; the pair words kept for the hover
\* are not touched
MenuEnterImages ==
    /\ vpc = "events" /\ menu_active
    /\ menu.count > 0
    /\ pathbuf' = Ptr(SelectedPath)
    /\ list' = EventDirImages(SelectedPath)
    /\ base' = EventDirStore(SelectedPath)
    /\ index' = 0
    /\ LET entry == EntryOfImage(EventDirStore(SelectedPath), EventDirImages(SelectedPath), 0)
       IN IF EventDirImages(SelectedPath) = <<>>
          THEN UNCHANGED <<current_text_msg, show_text, sub_layout, hover_index, word_layout>>
          ELSE IF entry # NULL /\ Deref(entry).zht_text # NULL
          THEN LET msg == Deref(entry).zht_text
                   r == rebuild_subtitle(win, g_subtitle_font_bias_px, shaper, junk, msg)
                   ws == extract_words_from_pairs(Deref(entry).pairs_text)
               IN /\ current_text_msg' = msg
                  /\ sub_layout' = r.layout
                  /\ show_text' = r.show_text
                  /\ hover_index' = r.hover_index
                  /\ word_layout' = build_word_layout(msg, r.layout, ws.words, junk).spans
          ELSE /\ current_text_msg' = NULL
               /\ show_text' = FALSE
               /\ UNCHANGED <<sub_layout, hover_index, word_layout>>
    /\ menu_active' = FALSE
    /\ UNCHANGED <<fsys, directory, vpc, menu, win, shaper, g_subtitle_font_bias_px, junk,
                   cp_byte_index, lpc, loadVars, pairsVars, evVars>>

\* SDL_WINDOWEVENT_SIZE_CHANGED / SDL_WINDOWEVENT_RESIZED, r36s_viewer.c 672-696
WindowResized ==
    /\ vpc = "events"
    /\ \E w \in EventWindows :
          LET r == IF show_text /\ current_text_msg # NULL
                   THEN rebuild_subtitle(w, g_subtitle_font_bias_px, shaper, junk,
                                         current_text_msg)
                   ELSE [layout |-> sub_layout, show_text |-> show_text,
                         hover_index |-> hover_index]
              f == IF current_text_msg # NULL
                   THEN refresh_word_layout_for_time(EntryOfImage(base, list, index),
                           current_text_msg, r.layout, junk, pair_words_cache,
                           pair_words_count)
                   ELSE [spans |-> word_layout, words |-> pair_words_cache,
                         count |-> pair_words_count]
          IN /\ win' = w
             /\ sub_layout' = r.layout
             /\ show_text' = r.show_text
             /\ hover_index' = r.hover_index
             /\ word_layout' = f.spans
             /\ pair_words_cache' = f.words
             /\ pair_words_count' = f.count
    /\ UNCHANGED <<index, current_text_msg, g_subtitle_font_bias_px, locked_on_subtitle,
                   hover_info_tex, show_pt, current_pt_msg>>
    /\ EventsFixed

\* void set_subtitle_font_bias(int bias_px), text.c 38-42: the value stored
\* in g_subtitle_font_bias_px
set_subtitle_font_bias(bias_px) ==
    IF bias_px < -100 THEN -100 ELSE IF bias_px > 200 THEN 200 ELSE bias_px

\* int get_subtitle_font_bias(void), text.c 44
get_subtitle_font_bias == g_subtitle_font_bias_px

\* bias += 2 or bias -= 2 without the two bounds of the handler
NewBiasUnclamped(delta) == get_subtitle_font_bias + delta

\* bias += 2 or bias -= 2, clamped, r36s_viewer.c 704-708 and 1017-1021
NewBias(delta) ==
    LET b == get_subtitle_font_bias + delta
    IN IF b < MinBias THEN MinBias ELSE IF b > MaxBias THEN MaxBias ELSE b

\* The values of the bias that are followed: the first steps above 0 in the
\* event loop on the directory "d", and every value the handlers can store,
\* with the next steps beyond their bounds, where the bias is followed alone
BiasFollowed ==
    IF lpc = "bias" THEN (MinBias - 4)..(MaxBias + 4) ELSE 0..(2 * MaxBiasSteps)


\* SDLK_y / SDLK_x, r36s_viewer.c 702-721
KeyYX ==
    /\ vpc = "events" /\ ~menu_active
    /\ \E delta \in {2, -2} :
          /\ NewBias(delta) \in BiasFollowed
          /\ g_subtitle_font_bias_px' = set_subtitle_font_bias(NewBias(delta))
          /\ IF show_text /\ current_text_msg # NULL
             THEN LET r == rebuild_subtitle(win, set_subtitle_font_bias(NewBias(delta)),
                                            shaper, junk, current_text_msg)
                  IN /\ sub_layout' = r.layout
                     /\ show_text' = r.show_text
                     /\ hover_index' = r.hover_index
             ELSE UNCHANGED <<sub_layout, show_text, hover_index>>
    /\ UNCHANGED <<win, index, current_text_msg, word_layout, locked_on_subtitle,
                   hover_info_tex, pair_words_cache, pair_words_count, show_pt,
                   current_pt_msg>>
    /\ EventsFixed

\* SDL_CONTROLLER_BUTTON_Y / SDL_CONTROLLER_BUTTON_X, r36s_viewer.c 1016-1033:
\* set_bottom_text is given current_text_msg both as msg and as the message to
\* free and replace, so it copies and renders msg after freeing it
ControllerYX ==
    /\ vpc = "events" /\ ~menu_active
    /\ \E delta \in {2, -2} :
          /\ NewBias(delta) \in BiasFollowed
          /\ g_subtitle_font_bias_px' = set_subtitle_font_bias(NewBias(delta))
          /\ IF show_text /\ current_text_msg # NULL
             THEN \E m \in DanglingReads(Deref(current_text_msg), junk) :
                     /\ current_text_msg' = Ptr(m)
                     /\ show_text' = (SurfaceWidth(m, shaper, MinFontPx, 0) > 0)
             ELSE UNCHANGED <<current_text_msg, show_text>>
    /\ UNCHANGED <<win, index, sub_layout, hover_index, word_layout, locked_on_subtitle,
                   hover_info_tex, pair_words_cache, pair_words_count, show_pt,
                   current_pt_msg>>
    /\ EventsFixed

\* the PT panel is toggled and the hover selection is left as it is
TogglePtKeepingHover ==
    /\ UNCHANGED hover_index
    /\ locked_on_subtitle' = FALSE
    /\ hover_info_tex' = NULL
    /\ show_pt' = ~show_pt
    /\ LET entry == IF Len(list) > 0 THEN EntryOfImage(base, list, index) ELSE NULL
           pt == IF entry # NULL THEN Deref(entry).pt_text ELSE NULL
       IN current_pt_msg' =
             IF show_pt THEN NULL
             ELSE IF pt = NULL \/ Deref(pt) = <<>> THEN Ptr(NotAvailable) ELSE pt
    /\ UNCHANGED <<win, index, current_text_msg, show_text, sub_layout, word_layout,
                   g_subtitle_font_bias_px, pair_words_cache, pair_words_count>>
    /\ EventsFixed

\* the PT panel is toggled, r36s_viewer.c 722-752 and 1168-1197
TogglePt ==
    /\ hover_index' = -1
    /\ locked_on_subtitle' = FALSE
    /\ hover_info_tex' = NULL
    /\ show_pt' = ~show_pt
    /\ LET entry == IF Len(list) > 0 THEN EntryOfImage(base, list, index) ELSE NULL
           pt == IF entry # NULL THEN Deref(entry).pt_text ELSE NULL
       IN current_pt_msg' =
             IF show_pt THEN NULL
             ELSE IF pt = NULL \/ Deref(pt) = <<>> THEN Ptr(NotAvailable) ELSE pt
    /\ UNCHANGED <<win, index, current_text_msg, show_text, sub_layout, word_layout,
                   g_subtitle_font_bias_px, pair_words_cache, pair_words_count>>
    /\ EventsFixed

\* SDLK_b
KeyB == vpc = "events" /\ ~menu_active /\ TogglePt

\* SDL_CONTROLLER_BUTTON_B
ControllerB == vpc = "events" /\ ~menu_active /\ TogglePt

\* locked_on_subtitle = false with the index moved to the next image
UnlockOnNextImage ==
    /\ locked_on_subtitle' = FALSE
    /\ index' = (index + 1) % Len(list)
    /\ UNCHANGED <<win, current_text_msg, show_text, sub_layout, word_layout,
                   hover_index, g_subtitle_font_bias_px, hover_info_tex, pair_words_cache,
                   pair_words_count, show_pt, current_pt_msg>>
    /\ EventsFixed

\* locked_on_subtitle = false, r36s_viewer.c 755 and 1212
Unlock ==
    /\ locked_on_subtitle' = FALSE
    /\ UNCHANGED <<win, index, current_text_msg, show_text, sub_layout, word_layout,
                   hover_index, g_subtitle_font_bias_px, hover_info_tex, pair_words_cache,
                   pair_words_count, show_pt, current_pt_msg>>
    /\ EventsFixed

\* SDLK_r, r36s_viewer.c 753-755
KeyR == vpc = "events" /\ ~menu_active /\ locked_on_subtitle /\ Unlock

\* SDL_CONTROLLER_BUTTON_RIGHTSHOULDER, r36s_viewer.c 1210-1212
ControllerR1 == vpc = "events" /\ ~menu_active /\ locked_on_subtitle /\ Unlock

\* the jump of SDLK_l by 101 images
KeyLJumping101 ==
    /\ vpc = "events" /\ ~menu_active
    /\ IF Len(list) > 0 THEN ShowImage((index + 101) % Len(list), TRUE) ELSE UNCHANGED vars

\* SDLK_l, r36s_viewer.c 756-806
KeyL ==
    /\ vpc = "events" /\ ~menu_active
    /\ IF Len(list) > 0 THEN ShowImage((index + 100) % Len(list), TRUE) ELSE UNCHANGED vars

\* the jump of SDL_CONTROLLER_BUTTON_LEFTSHOULDER without the call of
\* refresh_word_layout_for_time
ControllerL1WithoutRefresh ==
    /\ vpc = "events" /\ ~menu_active
    /\ IF Len(list) > 0 THEN ShowImage((index + 100) % Len(list), FALSE) ELSE UNCHANGED vars

\* SDL_CONTROLLER_BUTTON_LEFTSHOULDER, r36s_viewer.c 1213-1263
ControllerL1 ==
    /\ vpc = "events" /\ ~menu_active
    /\ IF Len(list) > 0 THEN ShowImage((index + 100) % Len(list), TRUE) ELSE UNCHANGED vars

\* the default view is restored, r36s_viewer.c 807-823 and 1143-1163
RestoreView ==
    LET entry == IF Len(list) > 0 THEN EntryOfImage(base, list, index) ELSE NULL
        zht == IF entry # NULL THEN Deref(entry).zht_text ELSE NULL
    IN /\ show_pt' = FALSE
       /\ current_pt_msg' = NULL
       /\ hover_index' = -1
       /\ locked_on_subtitle' = FALSE
       /\ hover_info_tex' = NULL
       /\ IF zht # NULL /\ Deref(zht) # <<>>
          THEN LET r == rebuild_subtitle(win, g_subtitle_font_bias_px, shaper, junk, zht)
                   f == refresh_word_layout_for_time(entry, zht, r.layout, junk,
                                                     pair_words_cache, pair_words_count)
               IN /\ current_text_msg' = zht
                  /\ sub_layout' = r.layout
                  /\ show_text' = r.show_text
                  /\ word_layout' = f.spans
                  /\ pair_words_cache' = f.words
                  /\ pair_words_count' = f.count
          ELSE UNCHANGED <<current_text_msg, sub_layout, show_text, word_layout,
                           pair_words_cache, pair_words_count>>
       /\ UNCHANGED <<win, index, g_subtitle_font_bias_px>>
       /\ EventsFixed

\* SDLK_a
KeyA == vpc = "events" /\ ~menu_active /\ RestoreView

\* SDL_CONTROLLER_BUTTON_A
ControllerA == vpc = "events" /\ ~menu_active /\ RestoreView

\* if (list.count > 0 && !locked_on_subtitle) with every navigation
\* allowed, locked or not
CanNavigateLocked == Len(list) > 0

\* if (list.count > 0 && !locked_on_subtitle), r36s_viewer.c 825, 874, 1037, 1086
CanNavigate == Len(list) > 0 /\ ~locked_on_subtitle

\* SDLK_UP, r36s_viewer.c 824-872
KeyUp ==
    /\ vpc = "events" /\ ~menu_active
    /\ IF CanNavigate THEN ShowImage((index - 1 + Len(list)) % Len(list), TRUE) ELSE UNCHANGED vars

\* SDLK_DOWN, r36s_viewer.c 873-923
KeyDown ==
    /\ vpc = "events" /\ ~menu_active
    /\ IF CanNavigate THEN ShowImage((index + 1) % Len(list), TRUE) ELSE UNCHANGED vars

\* SDL_CONTROLLER_BUTTON_DPAD_UP, r36s_viewer.c 1036-1084
ControllerDpadUp ==
    /\ vpc = "events" /\ ~menu_active
    /\ IF CanNavigate THEN ShowImage((index - 1 + Len(list)) % Len(list), TRUE) ELSE UNCHANGED vars

\* SDL_CONTROLLER_BUTTON_DPAD_DOWN, r36s_viewer.c 1085-1120
ControllerDpadDown ==
    /\ vpc = "events" /\ ~menu_active
    /\ IF CanNavigate THEN ShowImage((index + 1) % Len(list), FALSE) ELSE UNCHANGED vars

\* hover_index after a step to the next (dir = 1) or the previous (dir = -1) span
HoverStep(dir) ==
    IF dir = 1
    THEN (IF hover_index < 0 THEN 0 ELSE (hover_index + 1) % Len(word_layout))
    ELSE (IF hover_index < 0 THEN Len(word_layout) - 1
          ELSE (hover_index - 1 + Len(word_layout)) % Len(word_layout))

\* the hover moves and the PT panel stays as it is
MoveHoverKeepingPt(dir, resolve) ==
    /\ vpc = "events" /\ ~menu_active
    /\ show_text /\ Len(word_layout) > 0
    /\ UNCHANGED <<show_pt, current_pt_msg>>
    /\ hover_index' = HoverStep(dir)
    /\ hover_info_tex' =
          IF resolve
          THEN update_hover_info_by_time(current_text_msg, EntryOfImage(base, list, index),
                                         sub_layout, word_layout, pair_words_count,
                                         HoverStep(dir))
          ELSE hover_info_tex
    /\ locked_on_subtitle' = FALSE
    /\ UNCHANGED <<win, index, current_text_msg, show_text, sub_layout, word_layout,
                   g_subtitle_font_bias_px, pair_words_cache, pair_words_count>>
    /\ EventsFixed

\* the hover moves; resolve tells whether the handler calls update_hover_info_by_time
MoveHover(dir, resolve) ==
    /\ vpc = "events" /\ ~menu_active
    /\ show_text /\ Len(word_layout) > 0
    /\ show_pt' = FALSE
    /\ current_pt_msg' = (IF show_pt THEN NULL ELSE current_pt_msg)
    /\ hover_index' = HoverStep(dir)
    /\ hover_info_tex' =
          IF resolve
          THEN update_hover_info_by_time(current_text_msg, EntryOfImage(base, list, index),
                                         sub_layout, word_layout, pair_words_count,
                                         HoverStep(dir))
          ELSE hover_info_tex
    /\ locked_on_subtitle' = FALSE
    /\ UNCHANGED <<win, index, current_text_msg, show_text, sub_layout, word_layout,
                   g_subtitle_font_bias_px, pair_words_cache, pair_words_count>>
    /\ EventsFixed

\* SDLK_RIGHT, r36s_viewer.c 924-937
KeyRight == MoveHover(1, TRUE)

\* SDLK_LEFT, r36s_viewer.c 938-950
KeyLeft == MoveHover(-1, TRUE)

\* SDL_CONTROLLER_BUTTON_DPAD_RIGHT, r36s_viewer.c 1121-1131
ControllerDpadRight == MoveHover(1, FALSE)

\* SDL_CONTROLLER_BUTTON_DPAD_LEFT, r36s_viewer.c 1132-1142
ControllerDpadLeft == MoveHover(-1, FALSE)

NextEvents ==
    \/ MenuDown
    \/ MenuUp
    \/ MenuEnterImages
    \/ WindowResized
    \/ KeyYX
    \/ ControllerYX
    \/ KeyB
    \/ ControllerB
    \/ KeyR
    \/ ControllerR1
    \/ KeyL
    \/ ControllerL1
    \/ KeyA
    \/ ControllerA
    \/ KeyUp
    \/ KeyDown
    \/ ControllerDpadUp
    \/ ControllerDpadDown
    \/ KeyRight
    \/ KeyLeft
    \/ ControllerDpadRight
    \/ ControllerDpadLeft

SpecEvents == InitEvents /\ [][NextEvents]_vars

(***************************************************************************)
(* Claims about the layouts and the hover in the event loop                *)
(***************************************************************************)
\* The words of the record of the image shown
WordsOfCurrentRecord ==
    LET entry == EntryOfImage(base, list, index)
    IN extract_words_from_pairs(IF entry # NULL THEN Deref(entry).pairs_text ELSE NULL).words

\* One span per codepoint of the index ix
FallbackSpans(ix) ==
    [i \in 1..ix.count |->
        [start_cp |-> i - 1, end_cp |-> i, x |-> ix.x_offsets[i], w |-> ix.widths[i]]]

\* C18: when the search for the words of the record yields no span and the
\* codepoint index is not empty, the word layout of the displayed subtitle is
\* one span (i, i+1, x_offset[i], width[i]) per codepoint.
C18_FallbackSpansWhenNoWordOccurs ==
    (/\ show_text
     /\ sub_layout.count > 0
     /\ build_word_layout(current_text_msg, sub_layout, WordsOfCurrentRecord, junk).spans = <<>>)
    => word_layout = FallbackSpans(sub_layout)

\* The codepoint index and the word layout of the displayed subtitle are those
\* built from the current text, at the current bias and window
LayoutsCurrent ==
    show_text =>
       LET ix == recreate_text_with_layout(win, g_subtitle_font_bias_px, shaper, junk,
                                           Deref(current_text_msg)).layout
       IN /\ sub_layout = ix
          /\ word_layout
                = build_word_layout(current_text_msg, ix, WordsOfCurrentRecord, junk).spans

\* C19: after any event that changes the text of the subtitle (navigation,
\* the jump by 100), its pixel size (the Y and X keys and buttons) or the
\* dimensions of the window, the word layout and the codepoint index are
\* exactly those built from the current text at its current size: they are
\* so when the event loop starts, no other event touches them, so they are
\* so in every state of the event loop.
C19_LayoutsRebuiltAfterEveryChange == vpc = "events" => LayoutsCurrent

\* The hover label is drawn, r36s_viewer.c 1295-1310
HoverLabelDisplayed == show_text /\ hover_index >= 0 /\ hover_info_tex # NULL

\* C20: every hover navigation step (keyboard LEFT/RIGHT, controller D-pad
\* left/right) that changes the selected span invokes the hover resolver, so
\* a displayed hover label is always the resolved text of the currently
\* selected span of the current record.
C20_HoverLabelIsOfSelectedSpan ==
    (/\ HoverLabelDisplayed
     /\ EntryOfImage(base, list, index) # NULL
     /\ current_text_msg = Deref(EntryOfImage(base, list, index)).zht_text) =>
       hover_info_tex
          = update_hover_info_by_time(current_text_msg, EntryOfImage(base, list, index),
                                      sub_layout, word_layout, pair_words_count, hover_index)

(***************************************************************************)
(* r36s_viewer.c: update_hover_info_by_time as a function of the subtitle  *)
(* shown, the record of the image, the word layout, the count of cached    *)
(* pair words and the hover index.                                         *)
(***************************************************************************)

\* "hello", "hello(greeting)" and "world: hi"
Hello == <<104, 101, 108, 108, 111>>
HelloGreeting == Hello \o <<LPAREN, 103, 114, 101, 101, 116, 105, 110, 103, 41>>

\* ["你好: hi", "世界: world"]
NiHaoPairs ==
    <<LBRACKET, QUOTE, 228, 189, 160, 229, 165, 189, COLON, SP, 104, 105, QUOTE, COMMA, SP,
      QUOTE>> \o ShiJie \o <<COLON, SP, 119, 111, 114, 108, 100, QUOTE, 93>>

\* The records hovered: [zht_text, pairs_text] of
\*   "你好世界" / ["你好: hi", "世界: world"]      "ab" / "a(x):y,b"
\*   "hello" / "hello(greeting)"                  "ba" / "c:z"
\*   "b" without pairs text                       "a" / "a:1,a:2"
\*   "ab" / "a (x):y,b(z"                          "b" / "(b"
HoverRecords ==
    { [zht_text |-> Ptr(NiHaoShiJie), pairs_text |-> Ptr(NiHaoPairs)],
      [zht_text |-> Ptr(<<97, 98>>),
       pairs_text |-> Ptr(<<97, LPAREN, 120, 41, COLON, 121, COMMA, 98>>)],
      [zht_text |-> Ptr(Hello), pairs_text |-> Ptr(HelloGreeting)],
      [zht_text |-> Ptr(<<98, 97>>), pairs_text |-> Ptr(<<99, COLON, 122>>)],
      [zht_text |-> Ptr(<<98>>), pairs_text |-> NULL],
      [zht_text |-> Ptr(<<97>>), pairs_text |-> Ptr(<<97, COLON, 49, COMMA, 97, COLON, 50>>)],
      [zht_text |-> Ptr(<<97, 98>>),
       pairs_text |-> Ptr(<<97, SP, LPAREN, 120, 41, COLON, 121, COMMA, 98, LPAREN, 122>>)],
      [zht_text |-> Ptr(<<98>>), pairs_text |-> Ptr(<<LPAREN, 98>>)] }

\* The ways main comes to a hover on a record cur: "refresh" after
\* rebuild_subtitle and refresh_word_layout_for_time on cur (startup, the
\* keyboard navigation, A, a resize); "stale" after the controller D-pad DOWN
\* from the record prev, whose word layout and pair words stay (r36s_viewer.c
\* 1098-1104); "menu" after Enter in the menu, which builds the word layout
\* of cur and leaves the pair words as main declared them (969-982, 569-571)
HoverArrivals == {"refresh", "stale", "menu"}

InitHover ==
    /\ LoadIdle
    /\ PairsIdle
    /\ fsys = <<>> /\ directory = Ptr(<<100>>) /\ vpc = "hover" /\ pathbuf = NULL
    /\ menu_active = FALSE /\ menu = [names |-> <<>>, count |-> 0, selected |-> 0]
    /\ list = << FullPath(FullPath(assets_root, <<100>>), <<49>> \o PngExt) >>
    /\ index = 0
    /\ win = <<640, 480>>
    /\ shaper = <<1, 1, 2, 2>>
    /\ g_subtitle_font_bias_px = 0
    /\ junk = 255
    /\ cp_byte_index = <<>>
    /\ \E cur \in HoverRecords, prev \in HoverRecords, arrival \in HoverArrivals :
          LET rec(r) == [time_seconds |-> 1, zht_text |-> r.zht_text,
                         pairs_text |-> r.pairs_text, pt_text |-> NULL]
              lay(r) == rebuild_subtitle(win, g_subtitle_font_bias_px, shaper, junk,
                                         r.zht_text)
              before == refresh_word_layout_for_time(Ptr(rec(prev)), prev.zht_text,
                                                     lay(prev).layout, junk, <<>>, 0)
              now == refresh_word_layout_for_time(Ptr(rec(cur)), cur.zht_text,
                                                  lay(cur).layout, junk, <<>>, 0)
              direct == build_word_layout(cur.zht_text, lay(cur).layout,
                                          extract_words_from_pairs(cur.pairs_text).words,
                                          junk)
          IN /\ arrival = "stale" => prev # cur
             /\ arrival # "stale" => prev = cur
             /\ lpc = arrival
             /\ base = StoreOf(<< rec(cur) >>)
             /\ current_text_msg = cur.zht_text
             /\ sub_layout = lay(cur).layout
             /\ show_text = lay(cur).show_text
             /\ word_layout = CASE arrival = "refresh" -> now.spans
                                [] arrival = "stale" -> before.spans
                                [] OTHER -> direct.spans
             /\ pair_words_cache = CASE arrival = "refresh" -> now.words
                                     [] arrival = "stale" -> before.words
                                     [] OTHER -> <<>>
             /\ pair_words_count = CASE arrival = "refresh" -> now.count
                                     [] arrival = "stale" -> before.count
                                     [] OTHER -> 0
    /\ hover_index = -1
    /\ locked_on_subtitle = FALSE
    /\ hover_info_tex = NULL
    /\ show_pt = FALSE
    /\ current_pt_msg = NULL

\* update_hover_info_by_time(..., current_text_msg, &base, img_time, &sub_layout,
\* &word_layout, pair_words_cache, pair_words_count, hi, &hover_info_tex, ...)
UpdateHoverInfo ==
    /\ vpc = "hover"
    /\ \E hi \in -1..Len(word_layout) :
          /\ hover_index' = hi
          /\ hover_info_tex' =
                update_hover_info_by_time(current_text_msg, EntryOfImage(base, list, index),
                                          sub_layout, word_layout, pair_words_count, hi)
    /\ vpc' = "resolved"
    /\ UNCHANGED <<fsys, directory, menu_active, menu, pathbuf, list, index, base,
                   current_text_msg, show_text, win, shaper, g_subtitle_font_bias_px, junk,
                   sub_layout, word_layout, cp_byte_index, lpc, loadVars, pairsVars,
                   locked_on_subtitle, pair_words_cache, pair_words_count, show_pt,
                   current_pt_msg>>

NextHover == UpdateHoverInfo

SpecHover == InitHover /\ [][NextHover]_vars

(***************************************************************************)
(* Claims about the hover resolver                                         *)
(***************************************************************************)
\* The position of the k-th byte of s that starts a codepoint, Len(s) + 1
\* when s has fewer
NthStart(s, k) ==
    LET starts == { i \in 1..Len(s) : ~IsContinuation(s[i]) }
    IN IF k > Cardinality(starts) THEN Len(s) + 1
       ELSE CHOOSE i \in starts : Cardinality({ j \in starts : j < i }) = k - 1

\* The codepoints [a, b) of s
CodepointSlice(s, a, b) == SubSeq(s, NthStart(s, a + 1), NthStart(s, b + 1) - 1)

\* t with one space before its first '(' when a character that is not a
\* space precedes it
SpaceBeforeParen(t) ==
    LET ks == { k \in 1..Len(t) : t[k] = LPAREN }
        k == CHOOSE x \in ks : \A y \in ks : x <= y
    IN IF ks # {} /\ k > 1 /\ t[k - 1] # SP
       THEN [i \in 1..(Len(t) + 1) |-> IF i < k THEN t[i] ELSE IF i = k THEN SP ELSE t[i - 1]]
       ELSE t

\* The resolver has run on a span of the word layout
ResolvedInRange ==
    vpc = "resolved" /\ current_text_msg # NULL /\ hover_index \in 0..(Len(word_layout) - 1)

\* The word hovered: the codepoints of the selected span
HoveredWord ==
    CodepointSlice(Deref(current_text_msg), word_layout[hover_index + 1].start_cp,
                   word_layout[hover_index + 1].end_cp)

\* The pair items of the record of the image shown
PairItemsOfRecord ==
    LET entry == EntryOfImage(base, list, index)
    IN extract_words_and_items_from_pairs(
          IF entry # NULL THEN Deref(entry).pairs_text ELSE NULL)

\* The positions of the pair items whose word is the hovered word
Matches == { i \in 1..PairItemsOfRecord.count : PairItemsOfRecord.words[i] = HoveredWord }

\* The full text of the first item matching, in parse order
FirstMatch == PairItemsOfRecord.items[CHOOSE i \in Matches : \A j \in Matches : i <= j]

\* C21: the resolver on a span in range takes the codepoints [start, end) of
\* the subtitle as the hovered word and, when a pair item of the record has
\* exactly that word, gives the full text of the first such item,
\* normalised.
C21_ResolvesToFirstMatchingItem ==
    (ResolvedInRange /\ Matches # {}) =>
       hover_info_tex = Ptr(SpaceBeforeParen(FirstMatch))

\* The same when the count of cached pair words is that of a record with words
C21_HoldsWhenPairWordsAreCached ==
    (ResolvedInRange /\ Matches # {} /\ pair_words_count > 0) =>
       hover_info_tex = Ptr(SpaceBeforeParen(FirstMatch))

\* The record "你好世界" with the spans [0,2) and [2,4), span 1 resolved to
\* "世界: world"
C21_NiHaoShiJieResolved ==
    /\ ResolvedInRange
    /\ current_text_msg = Ptr(NiHaoShiJie)
    /\ Len(word_layout) = 2
    /\ <<word_layout[1].start_cp, word_layout[1].end_cp>> = <<0, 2>>
    /\ <<word_layout[2].start_cp, word_layout[2].end_cp>> = <<2, 4>>
    /\ hover_index = 1
    /\ hover_info_tex = Ptr(ShiJie \o <<COLON, SP, 119, 111, 114, 108, 100>>)

\* The pairs text of the record of the image shown
RawPairsOfRecord ==
    LET entry == EntryOfImage(base, list, index)
    IN IF entry # NULL THEN Deref(entry).pairs_text ELSE NULL

\* C22: when no pair item of the record has the hovered word (the record may
\* have no pair item at all), the resolver gives the whole pairs text of the
\* record when it is not empty and "N/A" when the record has no pairs text,
\* changed by the normalisation of the parenthesis only.
C22_FallsBackToRawPairsThenSentinel ==
    (ResolvedInRange /\ Matches = {}) =>
       hover_info_tex
          = Ptr(SpaceBeforeParen(IF RawPairsOfRecord # NULL /\ Deref(RawPairsOfRecord) # <<>>
                                 THEN Deref(RawPairsOfRecord) ELSE NotAvailable))

\* The word "a" hovered on the record "ba" / "c:z", resolved to "c:z"
C22_Witness ==
    /\ ResolvedInRange
    /\ Matches = {}
    /\ HoveredWord = <<97>>
    /\ RawPairsOfRecord = Ptr(<<99, COLON, 122>>)
    /\ hover_info_tex = RawPairsOfRecord

\* A word hovered on the record "b" without pairs text, resolved to "N/A"
C22_SentinelShown ==
    /\ ResolvedInRange
    /\ RawPairsOfRecord = NULL
    /\ hover_info_tex = Ptr(NotAvailable)

\* C23: the resolver called with an index outside [0, len(spans)), -1 and
\* len(spans) included, gives the text "N/A".
C23_OutOfRangeGivesSentinel ==
    (vpc = "resolved" /\ hover_index \notin 0..(Len(word_layout) - 1)) =>
       hover_info_tex = Ptr(NotAvailable)

\* C24: the text the resolver shows is the text it found (the full text of
\* the item matched, the pairs text or "N/A") with exactly one space
\* inserted before its first '(' when the character before that '(' is not
\* a space, and that text unchanged when the '(' follows a space, starts the
\* text or is absent.
C24_OneSpaceBeforeParen ==
    ResolvedInRange =>
       hover_info_tex
          = Ptr(SpaceBeforeParen(display_owned(current_text_msg,
                                               EntryOfImage(base, list, index), word_layout,
                                               pair_words_count, hover_index)))

\* "hello" hovered on the record "hello" / "hello(greeting)": the item
\* matched is shown as "hello (greeting)"
C24_Witness ==
    /\ ResolvedInRange
    /\ Matches # {}
    /\ FirstMatch = HelloGreeting
    /\ hover_info_tex = Ptr(Hello \o <<SP>> \o SubSeq(HelloGreeting, 6, Len(HelloGreeting)))

\* The pairs text "a (x):y,b(z" shown as it is, and the pairs text "a(x):y,b"
\* shown as "a (x):y,b"
C24_RawTextsShown ==
    /\ ResolvedInRange
    /\ Matches = {}
    /\ \/ /\ RawPairsOfRecord = Ptr(<<97, SP, LPAREN, 120, 41, COLON, 121, COMMA, 98, LPAREN, 122>>)
          /\ hover_info_tex = RawPairsOfRecord
       \/ /\ RawPairsOfRecord = Ptr(<<97, LPAREN, 120, 41, COLON, 121, COMMA, 98>>)
          /\ hover_info_tex = Ptr(<<97, SP, LPAREN, 120, 41, COLON, 121, COMMA, 98>>)

(***************************************************************************)
(* Claims about the pair words, the lock and the PT panel in the event     *)
(* loop                                                                    *)
(***************************************************************************)
\* The record of the image shown, when it has one with a subtitle text
RecordShown ==
    LET entry == EntryOfImage(base, list, index)
    IN IF list # <<>> /\ entry # NULL /\ Deref(entry).zht_text # NULL THEN entry ELSE NULL

\* C25: the pair words kept for the hover are never those of another
\* record: after any change of the record displayed (navigation by keyboard
\* or controller, the jump by 100, a selection in the menu, A), the cached
\* list of pair words and its count are the words parsed from the pairs text
\* of the record now displayed. They are so after the first record is shown
\* and only those events replace the record, so they are so whenever a
\* record is displayed.
C25_PairWordsAreOfRecordShown ==
    (vpc = "events" /\ ~menu_active /\ RecordShown # NULL) =>
       LET ws == extract_words_from_pairs(Deref(RecordShown).pairs_text)
       IN pair_words_cache = ws.words /\ pair_words_count = ws.count

(***************************************************************************)
(* text.c / r36s_viewer.c: the subtitle font bias followed alone, through  *)
(* every value the Y and X handlers can store, on a directory of one image *)
(* whose record has the subtitle "a".                                      *)
(***************************************************************************)
\* A window in which the font size starts below 18 px at the lowest bias,
\* and one in which it starts above 200 px at the highest
BiasWindows == { <<320, 240>>, <<1280, 720>> }

\* main up to the event loop (r36s_viewer.c 460-620) for a directory with the
\* image "1.png" and the record of time 1: the image is shown with its
\* subtitle, the bias is 0 as text.c declares it
InitBias ==
    /\ LoadIdle
    /\ PairsIdle
    /\ fsys = <<>> /\ directory = Ptr(<<100>>) /\ vpc = "events"
    /\ pathbuf = Ptr(FullPath(assets_root, <<100>>))
    /\ menu_active = FALSE /\ menu = [names |-> <<>>, count |-> 0, selected |-> 0]
    /\ list = << FullPath(FullPath(assets_root, <<100>>), <<49>> \o PngExt) >>
    /\ index = 0
    /\ base = StoreOf(<< [time_seconds |-> 1, zht_text |-> Ptr(<<97>>),
                          pairs_text |-> Ptr(<<97, COLON, 49>>), pt_text |-> NULL] >>)
    /\ win \in BiasWindows
    /\ shaper = <<1, 1, 2, 2>>
    /\ g_subtitle_font_bias_px = 0
    /\ junk = 255
    /\ cp_byte_index = <<>>
    /\ lpc = "bias"
    /\ LET entry == EntryOfImage(base, list, index)
           r == rebuild_subtitle(win, g_subtitle_font_bias_px, shaper, junk,
                                 Deref(entry).zht_text)
           f == refresh_word_layout_for_time(entry, Deref(entry).zht_text, r.layout,
                                             junk, <<>>, 0)
       IN /\ current_text_msg = Deref(entry).zht_text
          /\ sub_layout = r.layout
          /\ show_text = r.show_text
          /\ hover_index = r.hover_index
          /\ word_layout = f.spans
          /\ pair_words_cache = f.words
          /\ pair_words_count = f.count
    /\ locked_on_subtitle = FALSE
    /\ hover_info_tex = NULL
    /\ show_pt = FALSE
    /\ current_pt_msg = NULL

NextBias ==
    \/ KeyYX
    \/ ControllerYX

SpecBias == InitBias /\ [][NextBias]_vars

\* The value of lo..hi nearest to x
Nearest(x, lo, hi) ==
    CHOOSE y \in {lo, x, hi} : y \in lo..hi /\ (x \in lo..hi => y = x)
                                /\ (x < lo => y = lo) /\ (x > hi => y = hi)

\* The arguments on which set_subtitle_font_bias is looked at: around its
\* two bounds, around 0 and around the bounds of the handlers
BiasArguments ==
    (-104..-96) \cup (-54..-46) \cup (-4..4) \cup (96..104) \cup (196..204)

\* C26: set_subtitle_font_bias(b) stores b clamped to [-100, 200] and
\* get_subtitle_font_bias returns the stored value; after any sequence of
\* presses of Y and X (keys or buttons) from the bias 0 the bias is within
\* [-50, 100], a press stores the bias changed by exactly 2 unless that leaves
\* [-50, 100], in which case the bias stays at its bound; and the font size
\* the subtitle starts from, before the fitting attempts, is within [18, 200].
C26_BiasClampedAndFontSizeBounded ==
    /\ \A b \in BiasArguments : set_subtitle_font_bias(b) = Nearest(b, -100, 200)
    /\ get_subtitle_font_bias = g_subtitle_font_bias_px
    /\ g_subtitle_font_bias_px \in MinBias..MaxBias
    /\ \A delta \in {2, -2} :
          set_subtitle_font_bias(NewBias(delta))
             = IF g_subtitle_font_bias_px + delta \in MinBias..MaxBias
               THEN g_subtitle_font_bias_px + delta
               ELSE g_subtitle_font_bias_px
    /\ \A n \in 0..12 :
          StartFontPx(win, g_subtitle_font_bias_px, n) \in MinFontPx..MaxFontPx
    /\ show_text => sub_layout.font_px \in FloorFontPx..MaxFontPx

\* The bias at its upper bound after 50 presses of the Y key, the subtitle
\* laid out there from the font size 200 that bounds 144 + 100
C26_Witness ==
    /\ lpc = "bias"
    /\ g_subtitle_font_bias_px = MaxBias
    /\ StartFontPxUnbounded(win, g_subtitle_font_bias_px, 1) > MaxFontPx
    /\ show_text
    /\ sub_layout.font_px = MaxFontPx

\* The bias at its lower bound, the subtitle laid out from the font size 18
\* that bounds 48 - 50
C26_LowestBias ==
    /\ lpc = "bias"
    /\ g_subtitle_font_bias_px = MinBias
    /\ StartFontPxUnbounded(win, g_subtitle_font_bias_px, 1) < MinFontPx
    /\ show_text
    /\ sub_layout.font_px = MinFontPx

\* C27: while navigation is locked on a subtitle, UP and DOWN (the arrow
\* keys and the controller D-pad) change nothing: the image index, the
\* subtitle text, the word layout, the hover selection, the PT panel and the
\* lock stay as they are.
C27_LockedUpDownChangeNothing ==
    [][(locked_on_subtitle /\ (KeyUp \/ KeyDown \/ ControllerDpadUp \/ ControllerDpadDown))
          => UNCHANGED <<index, current_text_msg, show_text, sub_layout, word_layout,
                         hover_index, show_pt, current_pt_msg, locked_on_subtitle>>]_vars

\* Navigation locked on the second image, reached by DOWN from the first
C27_Witness ==
    /\ vpc = "events" /\ ~menu_active
    /\ locked_on_subtitle
    /\ index = 1
    /\ RecordShown # NULL

C28_UnlockedWithoutRecord ==
    /\ vpc = "events" /\ ~menu_active
    /\ index = 2
    /\ RecordShown = NULL
    /\ ~locked_on_subtitle
    /\ ~show_text

\* C29: the lock can always be released. In every state with navigation
\* locked the R key and the R1 button can be pressed, and a press clears the
\* lock and leaves the image, the subtitle and the hover selection as they
\* are; B, A and every hover step that moves the selection clear the lock
\* too; and with the lock cleared DOWN shows the next image, index + 1 modulo
\* the number of images.
C29_LockCanAlwaysBeReleased ==
    /\ [](locked_on_subtitle => (ENABLED KeyR /\ ENABLED ControllerR1))
    /\ [][/\ (locked_on_subtitle /\ (KeyR \/ ControllerR1))
             => /\ ~locked_on_subtitle'
                /\ UNCHANGED <<index, current_text_msg, show_text, sub_layout,
                               word_layout, hover_index>>
          /\ (KeyB \/ ControllerB \/ KeyA \/ ControllerA) => ~locked_on_subtitle'
          /\ (hover_index' # hover_index /\ hover_index' >= 0) => ~locked_on_subtitle'
          /\ (~locked_on_subtitle /\ list # <<>> /\ (KeyDown \/ ControllerDpadDown))
             => index' = (index + 1) % Len(list)]_vars

\* The second image after R released the lock DOWN had set on it
C29_Witness ==
    /\ vpc = "events" /\ ~menu_active
    /\ index = 1
    /\ RecordShown # NULL
    /\ current_text_msg = Deref(RecordShown).zht_text
    /\ show_text
    /\ hover_index = -1
    /\ ~locked_on_subtitle

\* The text of the PT panel for the image shown: the translation of its
\* record, "N/A" when the record or its translation is absent or empty
TranslationShown ==
    LET entry == IF list # <<>> THEN EntryOfImage(base, list, index) ELSE NULL
        pt == IF entry # NULL THEN Deref(entry).pt_text ELSE NULL
    IN IF pt # NULL /\ Deref(pt) # <<>> THEN Deref(pt) ELSE NotAvailable

\* C30: the PT panel is hidden whenever the image changes or the hover
\* moves: after every UP, DOWN or jump by 100 that changes the index and
\* after every LEFT or RIGHT hover step that takes effect, show_pt is false
\* and the PT message is released; B toggles the panel and, when it opens
\* it, the message is the translation of the record of the image shown, or
\* "N/A" when the record or its translation is absent or empty. So an open
\* panel always shows the translation for the image shown, and a closed one
\* holds no message.
C30_PtPanelHiddenOnChangeAndToggledByB ==
    /\ [](IF show_pt THEN current_pt_msg = Ptr(TranslationShown) ELSE current_pt_msg = NULL)
    /\ [][/\ (index' # index) => (~show_pt' /\ current_pt_msg' = NULL)
          /\ (KeyRight \/ KeyLeft \/ ControllerDpadRight \/ ControllerDpadLeft)
             => (~show_pt' /\ current_pt_msg' = NULL)
          /\ (KeyB \/ ControllerB)
             => /\ show_pt' = ~show_pt
                /\ show_pt' => current_pt_msg' = Ptr(TranslationShown)]_vars

\* The panel opened by B on the first image, with the translation "p"
C30_Witness ==
    /\ vpc = "events" /\ ~menu_active
    /\ show_pt
    /\ index = 0
    /\ current_pt_msg = Ptr(<<112>>)

\* The panel opened on the second image, whose record has no translation,
\* and on the third, which has no record: "N/A"
C30_SentinelShown ==
    /\ vpc = "events" /\ ~menu_active
    /\ show_pt
    /\ index = 2
    /\ EntryOfImage(base, list, index) = NULL
    /\ current_pt_msg = Ptr(NotAvailable)

(***************************************************************************)
(* Claims about the equivalence of the controller and the keyboard         *)
(***************************************************************************)

\* the viewer shows images: the menu is closed
ViewerState == vpc = "events" /\ ~menu_active

HoverIndexValid == hover_index = -1 \/ hover_index \in 0..(Len(word_layout) - 1)

\* C32: in every reachable state hover_index is -1 or a valid index into the
\* word layout; a step that selects a span goes from none to span 0 (RIGHT)
\* or to the last span (LEFT) and otherwise one span on, modulo the span
\* count; and hover_index changes only while a subtitle is shown and the
\* word layout has at least one span
C32_HoverIndexValidAndChangedOnlyOnSubtitle ==
    /\ [](ViewerState => HoverIndexValid)
    /\ [][/\ (hover_index' # hover_index /\ hover_index' >= 0)
                => hover_index' \in {HoverStep(1), HoverStep(-1)}
          /\ hover_index' # hover_index
                => show_text /\ Len(word_layout) > 0]_vars

\* C32, the steps of RIGHT and LEFT alone: a step that selects a span is
\* taken while a subtitle is shown and the word layout has a span, and it
\* selects span 0 or the last span from none and the next or the previous
\* span, modulo the span count, otherwise
C32_HoverStepsWrapOnShownSubtitle ==
    [][(hover_index' # hover_index /\ hover_index' >= 0)
          => /\ show_text /\ Len(word_layout) > 0
             /\ hover_index' \in {HoverStep(1), HoverStep(-1)}
             /\ hover_index' \in 0..(Len(word_layout) - 1)]_vars

\* a span is selected and the image shown has no subtitle
C32_HoverKeptWithoutSubtitle ==
    ViewerState /\ hover_index >= 0 /\ ~show_text /\ current_text_msg = NULL

\* a span is selected and the word layout has no span
C32_HoverBeyondWordLayout ==
    ViewerState /\ hover_index >= 0 /\ Len(word_layout) = 0

\* a handler would evaluate list.paths[index] without testing list.count:
\* the resize handler when there is a subtitle message (r36s_viewer.c 683),
\* RIGHT and LEFT when a subtitle is shown and the word layout has a span
\* (r36s_viewer.c 926-934, 939-947)
PathsIndexedUnguarded ==
    \/ current_text_msg # NULL
    \/ (~menu_active /\ show_text /\ Len(word_layout) > 0)

\* C33: in every viewer state with a non-empty image list 0 <= index <
\* list.count; UP and DOWN move index by one with wrap-around, the 100-image
\* jump sets it to (index + 100) mod count, a menu selection sets it to 0 and
\* nothing else changes it; and list.paths[index] is evaluated by no handler
\* while the list is empty
C33_IndexWithinListAndMovedWithWrapAround ==
    /\ [](ViewerState /\ Len(list) > 0 => index \in 0..(Len(list) - 1))
    /\ [](PathsIndexedUnguarded => Len(list) > 0 /\ index \in 0..(Len(list) - 1))
    /\ [][/\ (CanNavigate /\ (KeyUp \/ ControllerDpadUp))
                => index' = (index - 1 + Len(list)) % Len(list)
          /\ (CanNavigate /\ (KeyDown \/ ControllerDpadDown))
                => index' = (index + 1) % Len(list)
          /\ (Len(list) > 0 /\ (KeyL \/ ControllerL1))
                => index' = (index + 100) % Len(list)
          /\ (menu_active /\ ~menu_active') => index' = 0
          /\ (index' # index)
                => /\ Len(list) > 0 /\ list' = list
                   /\ index' \in {(index - 1 + Len(list)) % Len(list),
                                  (index + 1) % Len(list),
                                  (index + 100) % Len(list)}]_vars

\* the last image of the list is shown: UP has wrapped around from image 0
\* to image 2, which has no record
C33_Witness ==
    /\ ViewerState
    /\ Len(list) = 3
    /\ index = 2
    /\ ~show_text /\ current_text_msg = NULL

\* the directory selected in the menu has no image: the viewer runs on an
\* empty list, here with the PT panel open
C33_EmptyListViewed ==
    /\ ViewerState
    /\ list = <<>>
    /\ index = 0
    /\ show_pt /\ current_pt_msg = Ptr(NotAvailable)

\* C34: in no reachable state is the PT panel shown while a span is selected
\* (show_pt with hover_index >= 0): a step that opens the panel leaves no
\* selection, and a step that selects a span leaves the panel closed
C34_PtPanelAndHoverExclusive ==
    /\ [](~(show_pt /\ hover_index >= 0))
    /\ [][/\ (~show_pt /\ show_pt') => hover_index' = -1
          /\ (hover_index' # hover_index /\ hover_index' >= 0)
                => ~show_pt' /\ current_pt_msg' = NULL]_vars

\* the PT panel is open on image 1, whose subtitle has two spans that RIGHT
\* and LEFT could select, and no span is selected
C34_Witness ==
    /\ ViewerState
    /\ show_pt /\ current_pt_msg = Ptr(<<112>>)
    /\ show_text /\ Len(word_layout) = 2
    /\ hover_index = -1
    /\ hover_info_tex = NULL

\* a span is selected on image 1 and the PT panel is closed
C34_SpanSelectedPanelClosed ==
    /\ ViewerState
    /\ hover_index = 1
    /\ ~show_pt /\ current_pt_msg = NULL
    /\ index = 0

(***************************************************************************)
(* Claims about the subtitle message across a change of the font bias      *)
(***************************************************************************)

\* C35: a change of the font bias re-renders the subtitle from a message
\* that is still allocated: after the step of keyboard Y/X or of controller
\* Y/X current_text_msg holds the same text as before the press, and a
\* subtitle that was shown is still shown
C35_BiasChangeKeepsSubtitleMessage ==
    [][(g_subtitle_font_bias_px' # g_subtitle_font_bias_px)
          => /\ current_text_msg' = current_text_msg
             /\ show_text' = show_text]_vars

\* C35 for the keyboard alone: the step of Y/X, which re-renders through
\* rebuild_subtitle, leaves the text of current_text_msg as it was
C35_KeyboardBiasChangeKeepsMessage ==
    [][KeyYX => current_text_msg' = current_text_msg]_vars

\* the message after a change of the bias is not the subtitle of the record
\* of the image shown: it was copied from the freed buffer
C35_MessageReadAfterFree ==
    /\ lpc = "bias"
    /\ g_subtitle_font_bias_px # 0
    /\ current_text_msg \in {Ptr(<<junk>>), Ptr(<<>>)}

(***************************************************************************)
(* Claims about the agreement of the two pairs parsers                     *)
(***************************************************************************)

\* C36: for every pairs string extract_words_from_pairs and
\* extract_words_and_items_from_pairs return the same words in the same
\* order with the same count, so every word that can produce a span is the
\* word of the PairItem at its position, whose full text is not empty
C36_ParsersReturnSameWords ==
    LET w == extract_words_from_pairs(pairs_str)
        wi == extract_words_and_items_from_pairs(pairs_str)
    IN /\ w.words = wi.words
       /\ w.count = wi.count
       /\ Len(wi.items) = w.count
       /\ \A i \in 1..w.count : wi.items[i] # <<>>
       /\ ppc = "words" => out_words = wi.words /\ out_count = wi.count
       /\ ppc = "items" => out_words = w.words /\ out_count = w.count

\* the words parser has returned the two words of "a(,a:", the first cut at
\* '(' and the second at ':'
C36_Witness ==
    /\ ppc = "words"
    /\ pairs_str = Ptr(<<97, LPAREN, COMMA, 97, COLON>>)
    /\ out_words = << <<97>>, <<97>> >>
    /\ out_count = 2

\* the items parser has returned the word of a bracketed string
C36_BracketedItemsParsed ==
    /\ ppc = "items"
    /\ pairs_str = Ptr(<<LBRACKET, QUOTE, 97, COLON, QUOTE>>)
    /\ out_words = << <<97>> >>
    /\ out_items = << <<97, COLON>> >>

(***************************************************************************)
(* Claims about the round trip from a word to its span and back            *)
(***************************************************************************)

\* the words searched in the subtitle: those of the pairs text
WordsSearched == extract_words_from_pairs(pairs_str).words

\* the spans the search of word k of the pairs text gives in the subtitle
SpansOfWord(k) ==
    IF WordsSearched[k] = <<>> THEN <<>>
    ELSE NeedleSpans(Deref(current_text_msg), sub_layout, cp_byte_index, WordsSearched[k], 0)

RECURSIVE SpansOfWordsFrom(_)
SpansOfWordsFrom(k) ==
    IF k > Len(WordsSearched) THEN <<>> ELSE SpansOfWord(k) \o SpansOfWordsFrom(k + 1)

\* the codepoints [start_cp, end_cp) of the subtitle, as utf8_substr_by_cp
\* extracts them
SubtitleOfSpan(sp) == utf8_substr_by_cp(current_text_msg, sp.start_cp, sp.end_cp)

\* C37, the round trip alone: for a subtitle and words that are well-formed
\* UTF-8, the word layout is made of the spans of the search of each word,
\* and the codepoints [start_cp, end_cp) of the subtitle that
\* utf8_substr_by_cp extracts for a span are byte-equal to the word that
\* produced it
C37_SpanCoversItsWord ==
    SpansBuilt =>
       /\ word_layout = SpansOfWordsFrom(1)
       /\ \A k \in 1..Len(WordsSearched) :
             \A j \in 1..Len(SpansOfWord(k)) :
                SubtitleOfSpan(SpansOfWord(k)[j]) = Ptr(WordsSearched[k])

\* the two spans of the word "é" in the subtitle "éé": codepoints [0, 1)
\* and [1, 2), found at the bytes 0 and 2
C37_SpansOfTwoByteWord ==
    /\ SpansBuilt
    /\ current_text_msg = Ptr(<<195, 169, 195, 169>>)
    /\ Len(word_layout) >= 2
    /\ <<word_layout[1].start_cp, word_layout[1].end_cp>> = <<0, 1>>
    /\ <<word_layout[2].start_cp, word_layout[2].end_cp>> = <<1, 2>>

\* C37: a span that the word search produced in the subtitle of the record
\* shown covers exactly a word of the pairs text of the record (the
\* codepoints [start_cp, end_cp) that utf8_substr_by_cp extracts are
\* byte-equal to it), and resolving it finds a pair item with that word:
\* the label is the first matching item, never the raw pairs text
C37_SpanCoversWordAndResolvesToItem ==
    (ResolvedInRange /\ lpc # "stale") =>
       LET sp == word_layout[hover_index + 1]
           ws == extract_words_from_pairs(RawPairsOfRecord).words
       IN /\ \E k \in 1..Len(ws) : SubtitleOfSpan(sp) = Ptr(ws[k])
          /\ Matches # {}
          /\ hover_info_tex = Ptr(SpaceBeforeParen(FirstMatch))

\* C37 for a span resolved after refresh_word_layout_for_time has built the
\* word layout and cached the pair words of the record shown
C37_HoldsWhenLayoutAndCacheAreRefreshed ==
    (ResolvedInRange /\ lpc = "refresh") =>
       LET sp == word_layout[hover_index + 1]
           ws == extract_words_from_pairs(RawPairsOfRecord).words
       IN /\ \E k \in 1..Len(ws) : SubtitleOfSpan(sp) = Ptr(ws[k])
          /\ Matches # {}
          /\ hover_info_tex = Ptr(SpaceBeforeParen(FirstMatch))

\* the span of "a" in the subtitle "a" of the record with the pairs text
\* "a:1,a:2", built at the menu selection, is resolved: the label is the raw
\* pairs text
C37_RawPairsShownForSpanOfWord ==
    /\ ResolvedInRange
    /\ lpc = "menu"
    /\ current_text_msg = Ptr(<<97>>)
    /\ Matches # {}
    /\ hover_info_tex = Ptr(<<97, COLON, 49, COMMA, 97, COLON, 50>>)

(***************************************************************************)
(* The normalisation of the parenthesis as a function of the text to       *)
(* display: the pairs text of a record that no item matches is displayed   *)
(* (r36s_viewer.c 366-371), normalised (372-387), and the label it gives   *)
(* is displayed and normalised once more.                                  *)
(***************************************************************************)
MaxTextLen == 4

\* '(' , space, tab, 'a', ':'
TextAlphabet == {LPAREN, SP, TAB, 97, COLON}

\* "hello(greeting)" of the specification, and texts with two parentheses
LongTexts ==
    { HelloGreeting,
      <<97, LPAREN, 120, 41, COLON, 121, COMMA, 98, LPAREN, 122, 41>>,
      <<97, SP, LPAREN, 120, 41, COMMA, 98, LPAREN, 122, 41>> }

DisplayTexts == SeqsUpTo(TextAlphabet, MaxTextLen) \cup LongTexts

\* strdup(pairs && *pairs ? pairs : "N/A"), r36s_viewer.c 370
DisplayFallback(pairs) ==
    IF pairs # NULL /\ Deref(pairs) # <<>> THEN Deref(pairs) ELSE NotAvailable

InitParen ==
    /\ LoadIdle
    /\ ViewerIdle
    /\ LayoutIdle
    /\ EventsIdle
    /\ pairs_str \in {NULL} \cup { Ptr(t) : t \in DisplayTexts }
    /\ out_words = <<>> /\ out_items = <<>> /\ out_count = 0
    /\ ppc = "display"

\* the text to display is normalised and becomes the label, r36s_viewer.c 366-387
NormalizeDisplay ==
    /\ ppc = "display"
    /\ hover_info_tex' = Ptr(NormalizeParen(DisplayFallback(pairs_str)))
    /\ ppc' = "label"
    /\ UNCHANGED <<pairs_str, out_words, out_items, out_count>>
    /\ UNCHANGED <<locked_on_subtitle, pair_words_cache, pair_words_count, show_pt,
                   current_pt_msg>>
    /\ UNCHANGED <<loadVars, viewVars, layVars>>

\* the text of the label is the text to display and is normalised again
NormalizeLabelAgain ==
    /\ ppc = "label"
    /\ pairs_str' = hover_info_tex
    /\ hover_info_tex' = Ptr(NormalizeParen(DisplayFallback(hover_info_tex)))
    /\ ppc' = "again"
    /\ UNCHANGED <<out_words, out_items, out_count>>
    /\ UNCHANGED <<locked_on_subtitle, pair_words_cache, pair_words_count, show_pt,
                   current_pt_msg>>
    /\ UNCHANGED <<loadVars, viewVars, layVars>>

NextParen == NormalizeDisplay \/ NormalizeLabelAgain

SpecParen == InitParen /\ [][NextParen]_vars

\* t without its k-th character
WithoutChar(t, k) == SubSeq(t, 1, k - 1) \o SubSeq(t, k + 1, Len(t))

\* the positions of '(' in t
ParenPositions(t) == { k \in 1..Len(t) : t[k] = LPAREN }

\* C38: the normalisation of an already normalised text changes nothing; one
\* call inserts at most one character, a space right before the first '('
\* of the text, and removes or reorders none (the label without that space
\* is the text); and a text whose first '(' is its first character is
\* returned unchanged
C38_NormalizationIdempotentAndMinimal ==
    LET d == DisplayFallback(pairs_str)
        n == Deref(hover_info_tex)
    IN /\ ppc = "again" => n = d
       /\ ppc = "label" =>
             /\ \/ n = d
                \/ /\ Len(n) = Len(d) + 1
                   /\ \E k \in 1..Len(d) :
                         /\ n[k] = SP /\ n[k + 1] = LPAREN
                         /\ \A j \in ParenPositions(n) : j >= k + 1
                         /\ WithoutChar(n, k) = d
             /\ (d[1] = LPAREN) => n = d
             /\ (ParenPositions(d) = {}) => n = d

\* "hello(greeting)" has become "hello (greeting)", and normalising the label
\* again has left it as it is
C38_Witness ==
    /\ ppc = "again"
    /\ pairs_str = Ptr(Hello \o <<SP>> \o SubSeq(HelloGreeting, Len(Hello) + 1, Len(HelloGreeting)))
    /\ hover_info_tex = pairs_str

\* the text "(a" is the label as it is
C38_ParenAtStartUnchanged ==
    /\ ppc = "label"
    /\ pairs_str = Ptr(<<LPAREN, 97>>)
    /\ hover_info_tex = Ptr(<<LPAREN, 97>>)

\* of the two parentheses of "a(x):y,b(z)" the first alone has a space
\* inserted before it
C38_FirstParenAlone ==
    /\ ppc = "label"
    /\ hover_info_tex = Ptr(<<97, SP, LPAREN, 120, 41, COLON, 121, COMMA, 98, LPAREN, 122, 41>>)

====
